---- MODULE Spec2Model ----
(***************************************************************************)
(* Model of GasControl (gas_control_nist2.py): the valve bank driven over  *)
(* the serial valve link, the routing-mode entry operations, the gas      *)
(* registry built by define_flowsms and the set_flowrate pipeline.        *)
(*                                                                         *)
(* Flows are integers in hundredths of a sccm (0.6 sccm = 60).  The flow   *)
(* values drawn as inputs are values on which the IEEE-754 evaluation of   *)
(* flow * 32000 / factor followed by int() equals the exact quotient       *)
(* truncated toward zero, so the integer arithmetic below is the code's.   *)
(*                                                                         *)
(* io is the record of what one call sends over the valve link and the    *)
(* MFC link, in program order; the program keeps no copy of the devices'  *)
(* state, so a device changes only through the commands recorded in io.   *)
(*                                                                         *)
(* grp, seq and th are the frames of the composite operations: the group   *)
(* flowsms_setpoints has reached, the pulse a pulse sequencer has reached, *)
(* and the session of a heating, cooling or ramping event.                 *)
(***************************************************************************)
EXTENDS Integers, Sequences, FiniteSets, TLC

VARIABLES pos, mode, prev_mode, pc, op, gas, flow, flow_conv, prompts, outcome, lost, io,
          grp, seq, th

vars == <<pos, mode, prev_mode, pc, op, gas, flow, flow_conv, prompts, outcome, lost, io,
          grp, seq, th>>

(***************************************************************************)
(* Bounds.                                                                 *)
(***************************************************************************)
\* largest number of actuation commands the valve link may lose in one call
MaxLost == 2
\* largest number of range prompts answered within one set_flowrate call
MaxPrompts == 2

(***************************************************************************)
(* Valve bank.                                                             *)
(***************************************************************************)
VALVE_ID == [A |-> 1, B |-> 2, C |-> 3, D |-> 4, E |-> 5, F |-> 6, G |-> 7, H |-> 8, I |-> 9]

Valves == DOMAIN VALVE_ID

ModeValves == {"A", "B", "C"}

SourceValves == Valves \ ModeValves

Positions == {"OFF", "ON", "Unknown"}

\* the position character a valve reports to a CP query
PositionChar(p) == IF p = "OFF" THEN "A" ELSE IF p = "ON" THEN "B" ELSE "?"

\* get_valve_position: the character parsed back into a position
get_valve_position(ch) == IF ch = "A" THEN "OFF" ELSE IF ch = "B" THEN "ON" ELSE "Unknown"

\* the sets of lost actuation commands <<valve, attempt>> a call may suffer
LostChoices(vs) == {L \in SUBSET (vs \X {1, 2}) : Cardinality(L) <= MaxLost}

\* the valve obeys an actuation command unless the link loses it
Actuate(p, valve, position, attempt, L) ==
    IF <<valve, attempt>> \in L THEN p ELSE [p EXCEPT ![valve] = position]

Cmd(valve, command) == [kind |-> "valve_cmd", valve |-> valve, arg |-> command]

\* the message printed for a position that is neither 'ON' nor 'OFF'
InvalidPosition == [kind |-> "print", valve |-> "-", arg |-> "Invalid position specified."]

\* move_valve_to_position without the resend
move_valve_to_position_no_resend(s, valve, position, L) ==
    IF position \notin {"ON", "OFF"}
    THEN [s EXCEPT !.io = Append(@, InvalidPosition)]
    ELSE LET command == IF position = "ON" THEN "CC" ELSE "CW"
             p1 == Actuate(s.pos, valve, position, 1, L)
             new_position == PositionChar(p1[valve])
         IN  [pos |-> p1,
              io |-> s.io \o << Cmd(valve, command),
                               [kind |-> "sleep", valve |-> valve, arg |-> "300ms"],
                               [kind |-> "valve_query", valve |-> valve, arg |-> "CP"],
                               [kind |-> "valve_readback", valve |-> valve, arg |-> new_position] >>]

\* move_valve_to_position querying again after it has resent
move_valve_to_position_requery(s, valve, position, L) ==
    IF position \notin {"ON", "OFF"}
    THEN [s EXCEPT !.io = Append(@, InvalidPosition)]
    ELSE LET position_real == IF position = "ON" THEN "B" ELSE "A"
             command == IF position = "ON" THEN "CC" ELSE "CW"
             p1 == Actuate(s.pos, valve, position, 1, L)
             new_position == PositionChar(p1[valve])
             io1 == s.io \o << Cmd(valve, command),
                              [kind |-> "sleep", valve |-> valve, arg |-> "300ms"],
                              [kind |-> "valve_query", valve |-> valve, arg |-> "CP"],
                              [kind |-> "valve_readback", valve |-> valve, arg |-> new_position] >>
         IN  IF new_position # position_real
             THEN [pos |-> Actuate(p1, valve, position, 2, L),
                   io |-> io1 \o << Cmd(valve, command),
                                    [kind |-> "valve_query", valve |-> valve, arg |-> "CP"] >>]
             ELSE [pos |-> p1, io |-> io1]

\* move_valve_to_position resending when the read-back matches
move_valve_to_position_resend(s, valve, position, L) ==
    IF position \notin {"ON", "OFF"}
    THEN [s EXCEPT !.io = Append(@, InvalidPosition)]
    ELSE LET position_real == IF position = "ON" THEN "B" ELSE "A"
             command == IF position = "ON" THEN "CC" ELSE "CW"
             p1 == Actuate(s.pos, valve, position, 1, L)
             new_position == PositionChar(p1[valve])
             io1 == s.io \o << Cmd(valve, command),
                              [kind |-> "sleep", valve |-> valve, arg |-> "300ms"],
                              [kind |-> "valve_query", valve |-> valve, arg |-> "CP"],
                              [kind |-> "valve_readback", valve |-> valve, arg |-> new_position] >>
         IN  IF new_position = position_real
             THEN [pos |-> Actuate(p1, valve, position, 2, L),
                   io |-> Append(io1, Cmd(valve, command))]
             ELSE [pos |-> p1, io |-> io1]

\* move_valve_to_position taking every position but 'ON' for 'OFF'
move_valve_to_position_else_off(s, valve, position, L) ==
    IF FALSE
    THEN [s EXCEPT !.io = Append(@, InvalidPosition)]
    ELSE LET position_real == IF position = "ON" THEN "B" ELSE "A"
             command == IF position = "ON" THEN "CC" ELSE "CW"
             p1 == Actuate(s.pos, valve, position, 1, L)
             new_position == PositionChar(p1[valve])
             io1 == s.io \o << Cmd(valve, command),
                              [kind |-> "sleep", valve |-> valve, arg |-> "300ms"],
                              [kind |-> "valve_query", valve |-> valve, arg |-> "CP"],
                              [kind |-> "valve_readback", valve |-> valve, arg |-> new_position] >>
         IN  IF new_position # position_real
             THEN [pos |-> Actuate(p1, valve, position, 2, L),
                   io |-> Append(io1, Cmd(valve, command))]
             ELSE [pos |-> p1, io |-> io1]

\* move_valve_to_position: s = [pos, io] before the call, the result after it
move_valve_to_position(s, valve, position, L) ==
    IF position \notin {"ON", "OFF"}
    THEN [s EXCEPT !.io = Append(@, InvalidPosition)]
    ELSE LET position_real == IF position = "ON" THEN "B" ELSE "A"
             command == IF position = "ON" THEN "CC" ELSE "CW"
             p1 == Actuate(s.pos, valve, position, 1, L)
             new_position == PositionChar(p1[valve])
             io1 == s.io \o << Cmd(valve, command),
                              [kind |-> "sleep", valve |-> valve, arg |-> "300ms"],
                              [kind |-> "valve_query", valve |-> valve, arg |-> "CP"],
                              [kind |-> "valve_readback", valve |-> valve, arg |-> new_position] >>
         IN  IF new_position # position_real
             THEN [pos |-> Actuate(p1, valve, position, 2, L),
                   io |-> Append(io1, Cmd(valve, command))]
             ELSE [pos |-> p1, io |-> io1]

(***************************************************************************)
(* Routing modes: the valve vector each entry operation commands, in the   *)
(* order A, B, C.                                                          *)
(***************************************************************************)
ModeNames == {"cont_mode_A", "cont_mode_B", "pulses_loop_mode_A", "pulses_loop_mode_B"}

\* cont_mode_B sending valve C to ON
ModeVector_b_moves_C(m) ==
    CASE m = "cont_mode_A"        -> [A |-> "OFF", B |-> "OFF", C |-> "OFF"]
      [] m = "cont_mode_B"        -> [A |-> "OFF", B |-> "ON",  C |-> "ON"]
      [] m = "pulses_loop_mode_A" -> [A |-> "ON",  B |-> "OFF", C |-> "ON"]
      [] m = "pulses_loop_mode_B" -> [A |-> "ON",  B |-> "ON",  C |-> "ON"]

\* pulses_loop_mode_B commanding the vector of pulses_loop_mode_A
ModeVector_copied(m) ==
    CASE m = "cont_mode_A"        -> [A |-> "OFF", B |-> "OFF", C |-> "OFF"]
      [] m = "cont_mode_B"        -> [A |-> "OFF", B |-> "ON",  C |-> "OFF"]
      [] m = "pulses_loop_mode_A" -> [A |-> "ON",  B |-> "OFF", C |-> "ON"]
      [] m = "pulses_loop_mode_B" -> [A |-> "ON",  B |-> "OFF", C |-> "ON"]

ModeVector(m) ==
    CASE m = "cont_mode_A"        -> [A |-> "OFF", B |-> "OFF", C |-> "OFF"]
      [] m = "cont_mode_B"        -> [A |-> "OFF", B |-> "ON",  C |-> "OFF"]
      [] m = "pulses_loop_mode_A" -> [A |-> "ON",  B |-> "OFF", C |-> "ON"]
      [] m = "pulses_loop_mode_B" -> [A |-> "ON",  B |-> "ON",  C |-> "ON"]

\* the entry operations sending valve D after valve C
EnterMode_moves_D(s, m, verbose, L) ==
    LET vec == ModeVector(m)
        sA == move_valve_to_position(s, "A", vec.A, L)
        sB == move_valve_to_position(sA, "B", vec.B, L)
        sC == move_valve_to_position(sB, "C", vec.C, L)
        sD == move_valve_to_position(sC, "D", vec.C, L)
    IN  IF verbose
        THEN [sD EXCEPT !.io = Append(@, [kind |-> "print", valve |-> "-", arg |-> m])]
        ELSE sD

\* the entry operations announcing the mode before valve C is commanded
EnterMode_announce_early(s, m, verbose, L) ==
    LET vec == ModeVector(m)
        sA == move_valve_to_position(s, "A", vec.A, L)
        sB == move_valve_to_position(sA, "B", vec.B, L)
        sP == IF verbose
              THEN [sB EXCEPT !.io = Append(@, [kind |-> "print", valve |-> "-", arg |-> m])]
              ELSE sB
    IN  move_valve_to_position(sP, "C", vec.C, L)

\* the body shared by the four entry operations
EnterMode(s, m, verbose, L) ==
    LET vec == ModeVector(m)
        sA == move_valve_to_position(s, "A", vec.A, L)
        sB == move_valve_to_position(sA, "B", vec.B, L)
        sC == move_valve_to_position(sB, "C", vec.C, L)
    IN  IF verbose
        THEN [sC EXCEPT !.io = Append(@, [kind |-> "print", valve |-> "-", arg |-> m])]
        ELSE sC

(***************************************************************************)
(* Gas-source selection actions (carrier and feed): the valve and the      *)
(* position each one commands; feed_O2_AB commands nothing.                *)
(***************************************************************************)
FeedNames == {"carrier_He_A", "carrier_Ar_A", "carrier_He_B", "carrier_Ar_B",
              "feed_CO2_AB", "feed_CO_AB", "feed_H2_A", "feed_D2_A", "feed_H2_B",
              "feed_D2_B", "feed_CH4_AB", "feed_C2H6_AB", "feed_O2_AB"}

\* feed_D2_A commanding the position of feed_H2_A
FeedCommand_same_position(f) ==
    CASE f = "carrier_He_A"  -> <<"G", "OFF">>
      [] f = "carrier_Ar_A"  -> <<"G", "ON">>
      [] f = "carrier_He_B"  -> <<"F", "ON">>
      [] f = "carrier_Ar_B"  -> <<"F", "OFF">>
      [] f = "feed_CO2_AB"   -> <<"D", "ON">>
      [] f = "feed_CO_AB"    -> <<"D", "OFF">>
      [] f = "feed_H2_A"     -> <<"I", "OFF">>
      [] f = "feed_D2_A"     -> <<"I", "OFF">>
      [] f = "feed_H2_B"     -> <<"H", "ON">>
      [] f = "feed_D2_B"     -> <<"H", "OFF">>
      [] f = "feed_CH4_AB"   -> <<"E", "ON">>
      [] f = "feed_C2H6_AB"  -> <<"E", "OFF">>
      [] f = "feed_O2_AB"    -> <<>>

\* carrier_Ar_A wired to valve A of the mode bank
FeedCommand_mode_valve(f) ==
    CASE f = "carrier_He_A"  -> <<"G", "OFF">>
      [] f = "carrier_Ar_A"  -> <<"A", "ON">>
      [] f = "carrier_He_B"  -> <<"F", "ON">>
      [] f = "carrier_Ar_B"  -> <<"F", "OFF">>
      [] f = "feed_CO2_AB"   -> <<"D", "ON">>
      [] f = "feed_CO_AB"    -> <<"D", "OFF">>
      [] f = "feed_H2_A"     -> <<"I", "OFF">>
      [] f = "feed_D2_A"     -> <<"I", "ON">>
      [] f = "feed_H2_B"     -> <<"H", "ON">>
      [] f = "feed_D2_B"     -> <<"H", "OFF">>
      [] f = "feed_CH4_AB"   -> <<"E", "ON">>
      [] f = "feed_C2H6_AB"  -> <<"E", "OFF">>
      [] f = "feed_O2_AB"    -> <<>>

FeedCommand(f) ==
    CASE f = "carrier_He_A"  -> <<"G", "OFF">>
      [] f = "carrier_Ar_A"  -> <<"G", "ON">>
      [] f = "carrier_He_B"  -> <<"F", "ON">>
      [] f = "carrier_Ar_B"  -> <<"F", "OFF">>
      [] f = "feed_CO2_AB"   -> <<"D", "ON">>
      [] f = "feed_CO_AB"    -> <<"D", "OFF">>
      [] f = "feed_H2_A"     -> <<"I", "OFF">>
      [] f = "feed_D2_A"     -> <<"I", "ON">>
      [] f = "feed_H2_B"     -> <<"H", "ON">>
      [] f = "feed_D2_B"     -> <<"H", "OFF">>
      [] f = "feed_CH4_AB"   -> <<"E", "ON">>
      [] f = "feed_C2H6_AB"  -> <<"E", "OFF">>
      [] f = "feed_O2_AB"    -> <<>>

\* calling one of the selection actions
Feed(s, f, L) ==
    LET s0 == [s EXCEPT !.io = Append(@, [kind |-> "call", valve |-> "-", arg |-> f])]
    IN  IF FeedCommand(f) = <<>>
        THEN s0
        ELSE LET r == move_valve_to_position(s0, FeedCommand(f)[1], FeedCommand(f)[2], L)
             IN  [r EXCEPT !.io = Append(@, [kind |-> "print", valve |-> "-", arg |-> f])]

(***************************************************************************)
(* The registry built by define_flowsms.  Each dictionary is a function    *)
(* whose domain is exactly the set of keys the source dictionary holds.    *)
(***************************************************************************)
gas_list == {"H2_A", "H2_B", "D2_A", "D2_B", "O2_A", "O2_B",
             "CO_AH", "CO_AL", "CO_BH", "CO_BL",
             "CO2_AH", "CO2_AL", "CO2_BH", "CO2_BL",
             "CH4_A", "CH4_B", "C2H6_A", "C2H6_B", "C3H8_A", "C3H8_B",
             "He_A", "He_B", "Ar_A", "Ar_B", "N2_A", "N2_B"}

gas_ID == [H2_A |-> 4, D2_A |-> 4, O2_A |-> 5,
           CO_AH |-> 6, CO_AL |-> 6, CO2_AH |-> 6, CO2_AL |-> 6,
           CH4_A |-> 7, C2H6_A |-> 7, C3H8_A |-> 7,
           He_A |-> 8, Ar_A |-> 8, N2_A |-> 8,
           He_B |-> 9, Ar_B |-> 9, N2_B |-> 9,
           CH4_B |-> 10, C2H6_B |-> 10, C3H8_B |-> 10,
           CO_BH |-> 11, CO_BL |-> 11, CO2_BH |-> 11, CO2_BL |-> 11,
           O2_B |-> 12, H2_B |-> 13, D2_B |-> 13]

gas_cal == [H2_A |-> 0, H2_B |-> 0, D2_A |-> 1, D2_B |-> 1, O2_A |-> 0, O2_B |-> 0,
            CO_AH |-> 0, CO_BH |-> 0, CO2_AH |-> 1, CO2_BH |-> 1,
            CO2_AL |-> 2, CO2_BL |-> 2, CO_AL |-> 3, CO_BL |-> 3,
            CH4_A |-> 0, CH4_B |-> 0, C2H6_A |-> 1, C2H6_B |-> 1,
            C3H8_A |-> 2, C3H8_B |-> 2,
            He_A |-> 0, He_B |-> 0, Ar_A |-> 1, Ar_B |-> 1, N2_A |-> 2, N2_B |-> 2]

\* [min, max] in hundredths of a sccm
gas_flow_range ==
    [CO2_AH |-> <<60, 3000>>, CO2_AL |-> <<26, 1300>>,
     CO2_BH |-> <<60, 3000>>, CO2_BL |-> <<26, 1300>>,
     CO_AH |-> <<60, 3000>>, CO_AL |-> <<36, 1800>>,
     CO_BH |-> <<60, 3000>>, CO_BL |-> <<36, 1800>>,
     CH4_A |-> <<60, 3000>>, CH4_B |-> <<60, 3000>>,
     C2H6_A |-> <<60, 3000>>, C2H6_B |-> <<60, 3000>>,
     C3H8_A |-> <<60, 3000>>, C3H8_B |-> <<60, 3000>>,
     H2_A |-> <<60, 3000>>, H2_B |-> <<60, 3000>>,
     D2_A |-> <<60, 3000>>, D2_B |-> <<60, 3000>>,
     O2_A |-> <<60, 3000>>, O2_B |-> <<60, 3000>>,
     He_A |-> <<120, 6000>>, He_B |-> <<120, 6000>>,
     Ar_A |-> <<120, 6000>>, Ar_B |-> <<120, 6000>>,
     N2_A |-> <<120, 6000>>, N2_B |-> <<120, 6000>>]

\* the source literal repeats the key "CO2_AL" and has no key "CO2_BL"
calibration_factor ==
    [H2_A |-> 1, H2_B |-> 1, D2_A |-> 1, D2_B |-> 1, O2_A |-> 1, O2_B |-> 1,
     CO_AH |-> 1, CO_AL |-> 1, CO_BH |-> 1, CO_BL |-> 1,
     CH4_A |-> 1, CH4_B |-> 1, C2H6_A |-> 1, C2H6_B |-> 1,
     C3H8_A |-> 1, C3H8_B |-> 1,
     CO2_AH |-> 1, CO2_AL |-> 1, CO2_BH |-> 1,
     He_A |-> 1, He_B |-> 1, Ar_A |-> 1, Ar_B |-> 1, N2_A |-> 1, N2_B |-> 1]

\* the source literal repeats the key "CO2_AL" and has no key "CO2_BL"
feed_gas_functions ==
    [H2_A |-> "feed_H2_A", H2_B |-> "feed_H2_B",
     D2_A |-> "feed_D2_A", D2_B |-> "feed_D2_B",
     O2_A |-> "feed_O2_AB", O2_B |-> "feed_O2_AB",
     CO_AH |-> "feed_CO_AB", CO_AL |-> "feed_CO_AB",
     CO_BH |-> "feed_CO_AB", CO_BL |-> "feed_CO_AB",
     CH4_A |-> "feed_CH4_AB", CH4_B |-> "feed_CH4_AB",
     C2H6_A |-> "feed_C2H6_AB", C2H6_B |-> "feed_C2H6_AB",
     C3H8_A |-> "feed_C2H6_AB", C3H8_B |-> "feed_C2H6_AB",
     CO2_AH |-> "feed_CO2_AB", CO2_AL |-> "feed_CO2_AB", CO2_BH |-> "feed_CO2_AB",
     He_A |-> "carrier_He_A", He_B |-> "carrier_He_B",
     Ar_A |-> "carrier_Ar_A", Ar_B |-> "carrier_Ar_B",
     N2_A |-> "carrier_Ar_A", N2_B |-> "carrier_Ar_B"]

gas_float_to_int_factor ==
    [H2_A |-> 30, H2_B |-> 30, D2_A |-> 30, D2_B |-> 30, O2_A |-> 30, O2_B |-> 30,
     CO_AH |-> 30, CO_AL |-> 18, CO_BH |-> 30, CO_BL |-> 18,
     CH4_A |-> 30, CH4_B |-> 30, C2H6_A |-> 30, C2H6_B |-> 30,
     C3H8_A |-> 30, C3H8_B |-> 30,
     CO2_AH |-> 30, CO2_AL |-> 13, CO2_BH |-> 30, CO2_BL |-> 13,
     He_A |-> 60, He_B |-> 60, Ar_A |-> 60, Ar_B |-> 60, N2_A |-> 60, N2_B |-> 60]

(***************************************************************************)
(* set_flowrate.                                                           *)
(***************************************************************************)
None == <<>>

Some(v) == <<v>>

\* full scale of the 16-bit setpoint parameter
FullScale == 32000

\* Python int() of the quotient n / d (d > 0): truncation toward zero
IntTrunc(n, d) == IF n >= 0 THEN n \div d ELSE -((-n) \div d)

\* flow_data rounded to the nearest integer instead of truncated
FlowData_rounded(g, fc) ==
    (2 * fc * FullScale + 100 * gas_float_to_int_factor[g])
        \div (2 * 100 * gas_float_to_int_factor[g])

\* flow_data computed with the divisor 30 for every gas
FlowData_one_factor(g, fc) == IntTrunc(fc * FullScale, 100 * 30)

\* flow_data = int(flow_conv * 32000 / gas_float_to_int_factor[gas]), with
\* flow_conv in hundredths of a sccm
FlowData(g, fc) == IntTrunc(fc * FullScale, 100 * gas_float_to_int_factor[g])

\* set_flowrate without its membership test
Registered_skipped(g) == TRUE

\* the membership test that opens set_flowrate
Registered(g) == g \in gas_list

\* the test that opens the validation loop
IsZeroFlow(f) == (f = None) \/ (f = Some(0))

\* the range tests of the validation loop
BelowMin(g, fc) == fc < gas_flow_range[g][1]

AboveMax(g, fc) == fc > gas_flow_range[g][2]

\* one pass of the while loop up to its break, its prompt or a failed lookup
LoopPass(g, f) ==
    IF IsZeroFlow(f)
    THEN [next |-> "break", flow_conv |-> 0]
    ELSE IF g \notin DOMAIN calibration_factor \/ g \notin DOMAIN gas_flow_range
    THEN [next |-> "KeyError", flow_conv |-> 0]
    ELSE LET fc == f[1] \div calibration_factor[g]
         IN  IF BelowMin(g, fc) THEN [next |-> "lower", flow_conv |-> fc]
             ELSE IF AboveMax(g, fc) THEN [next |-> "higher", flow_conv |-> fc]
             ELSE [next |-> "break", flow_conv |-> fc]

\* the setpoint parameter placed before the curve selection
WriteParams_setpoint_first(g, fc) ==
    << [node |-> gas_ID[g], proc_nr |-> 1, parm_nr |-> 1, data |-> FlowData(g, fc)] >>
    \o (IF gas_cal[g] \in Nat
        THEN << [node |-> gas_ID[g], proc_nr |-> 1, parm_nr |-> 16, data |-> gas_cal[g]] >>
        ELSE << >>)

\* the parameter list handed to write_parameters
WriteParams(g, fc) ==
    (IF gas_cal[g] \in Nat   \* "is not None": every entry is a curve index
     THEN << [node |-> gas_ID[g], proc_nr |-> 1, parm_nr |-> 16, data |-> gas_cal[g]] >>
     ELSE << >>)
    \o << [node |-> gas_ID[g], proc_nr |-> 1, parm_nr |-> 1, data |-> FlowData(g, fc)] >>

MfcWrite(g, fc) == [kind |-> "write_parameters", valve |-> "-", arg |-> WriteParams(g, fc)]

\* the routing step taken for a zero flow as well
RouteGas_nonneg(s, g, fc, L) ==
    IF fc >= 0 THEN Feed(s, feed_gas_functions[g], L) ELSE s

\* the routing step: the gas's bound selection action, when flow_conv > 0
RouteGas(s, g, fc, L) ==
    IF fc > 0 THEN Feed(s, feed_gas_functions[g], L) ELSE s

\* the MFC write issued before the routing action
AfterLoop_write_first(s, g, fc, L) ==
    IF fc > 0 /\ g \notin DOMAIN feed_gas_functions
    THEN [pos |-> s.pos, io |-> s.io, outcome |-> "KeyError"]
    ELSE LET w == [s EXCEPT !.io = Append(@, MfcWrite(g, fc))]
             r == RouteGas(w, g, fc, L)
         IN  [pos |-> r.pos, io |-> r.io, outcome |-> "returned"]

\* the code after the loop: routing action, encoding, MFC write
AfterLoop(s, g, fc, L) ==
    IF fc > 0 /\ g \notin DOMAIN feed_gas_functions
    THEN [pos |-> s.pos, io |-> s.io, outcome |-> "KeyError"]
    ELSE LET r == RouteGas(s, g, fc, L)
         IN  IF g \in DOMAIN gas_float_to_int_factor /\ g \in DOMAIN gas_cal /\ g \in DOMAIN gas_ID
             THEN [pos |-> r.pos, io |-> Append(r.io, MfcWrite(g, fc)), outcome |-> "returned"]
             ELSE [pos |-> r.pos, io |-> r.io, outcome |-> "KeyError"]

\* the valve the routing action of a call would command
RoutingValves(g, fc) ==
    IF fc > 0 /\ g \in DOMAIN feed_gas_functions /\ FeedCommand(feed_gas_functions[g]) # <<>>
    THEN {FeedCommand(feed_gas_functions[g])[1]}
    ELSE {}

(***************************************************************************)
(* Inputs.                                                                 *)
(***************************************************************************)
\* requested flows, hundredths of a sccm: negative, zero, each range's two
\* ends, values below, between and above them
FlowValues == {-100, 0, 10, 26, 36, 60, 70, 120, 500, 1300, 1800, 3000, 6000, 6100}

FlowArgs == {None} \cup {Some(v) : v \in FlowValues}

\* gas identifiers passed by callers: the registered ones and one that is not
GasArgs == gas_list \cup {"Xe_A"}

\* corrected flows the operator may enter: zero, below every range, inside
\* every range, above every range
NewFlowValues == {0, 10, 500, 6100}

\* what the operator types at "Enter new flow: ": a number or not a number
NewFlowEntries == {[numeric |-> TRUE, value |-> v] : v \in NewFlowValues}
                  \cup {[numeric |-> FALSE, value |-> 0]}

(***************************************************************************)
(* States.                                                                 *)
(***************************************************************************)
\* no flowsms_setpoints call is running
NoGroup == [step |-> 0, args |-> <<>>, applied |-> [gas |-> "-", flow |-> <<>>],
            called |-> <<>>, written |-> <<>>]

\* no pulse sequencer is running
NoSequence == [arg |-> 0, pulses |-> 0, i |-> 0, time_vo |-> 0, time_bp |-> 0,
               log |-> <<>>, clock |-> 0, started |-> 0, period |-> 0]

\* an argument of a thermal event: left out, not a number, or a number
NoArg == [kind |-> "None", value |-> 0]

TextArg == [kind |-> "text", value |-> 0]

NumArg(v) == [kind |-> "number", value |-> v]

\* the controller registers the events write (ramp rate, heating and cooling
\* setpoint) as a fresh controller holds them
InitialRegisters == (35 :> 50) @@ (24 :> 250) @@ (2 :> 250)

\* no thermal event is running
NoSession == [event |-> "none", ramp_rate |-> NoArg, ramp_sp |-> NoArg,
              rate_arg |-> NoArg, sp_arg |-> NoArg, rate_sp |-> <<>>, sp |-> <<>>,
              failed |-> {}, regs |-> InitialRegisters, before |-> InitialRegisters,
              pv |-> <<>>, last |-> "none", polls |-> 0, blocks |-> 0,
              status_reads |-> 0, dispatched |-> <<>>, ramp_pv |-> <<>>,
              temp_tc |-> <<>>, block |-> <<>>, wait |-> 0, elapsed |-> 0]

Idle ==
    /\ pc = "idle" /\ op = "none" /\ gas = "-" /\ flow = None /\ flow_conv = 0
    /\ prompts = 0 /\ outcome = "none" /\ lost = {} /\ io = <<>>

\* routing-mode engine: valves A, B, C in any position, no mode entered yet
InitMode ==
    /\ pos \in {p \in [Valves -> Positions] :
                   \A v \in SourceValves : p[v] = p["D"] /\ p[v] # "Unknown"}
    /\ mode = "undefined"
    /\ prev_mode = "undefined"
    /\ grp = NoGroup /\ seq = NoSequence /\ th = NoSession
    /\ Idle

\* flow control: the mode valves alike and the source valves alike, each
\* group in either position; the routing actions then move the source
\* valves one by one
InitFlow ==
    /\ pos \in {p \in [Valves -> {"OFF", "ON"}] :
                   /\ \A v \in ModeValves : p[v] = p["A"]
                   /\ \A v \in SourceValves : p[v] = p["D"]}
    /\ mode = "undefined"
    /\ prev_mode = "undefined"
    /\ grp = NoGroup /\ seq = NoSequence /\ th = NoSession
    /\ Idle

(***************************************************************************)
(* Operations.                                                             *)
(***************************************************************************)
ModeEntry(m) ==
    /\ pc = "idle"
    /\ \E verbose \in BOOLEAN, L \in LostChoices(ModeValves) :
          LET r == EnterMode([pos |-> pos, io |-> <<>>], m, verbose, L)
          IN  /\ pos' = r.pos
              /\ io' = r.io
              /\ lost' = L
    /\ mode' = m
    /\ prev_mode' = mode
    /\ op' = m
    /\ pc' = "done"
    /\ outcome' = "returned"
    /\ UNCHANGED <<gas, flow, flow_conv, prompts, grp, seq, th>>

cont_mode_A == ModeEntry("cont_mode_A")

cont_mode_B == ModeEntry("cont_mode_B")

pulses_loop_mode_A == ModeEntry("pulses_loop_mode_A")

pulses_loop_mode_B == ModeEntry("pulses_loop_mode_B")

\* the call ends by raising exc
Raise(exc) ==
    /\ pc' = "done"
    /\ outcome' = exc
    /\ UNCHANGED <<pos, lost, io>>

\* the loop has been left by break with flow_conv = fc
Complete(g, fc) ==
    \E L \in LostChoices(RoutingValves(g, fc)) :
       LET r == AfterLoop([pos |-> pos, io |-> io], g, fc, L)
       IN  /\ pos' = r.pos
           /\ io' = r.io
           /\ outcome' = r.outcome
           /\ lost' = L
           /\ pc' = "done"

\* the loop stops at input(): the range message has been printed
Prompt(which) ==
    /\ pc' = "prompt"
    /\ io' = Append(io, [kind |-> "prompt", valve |-> "-", arg |-> which])
    /\ UNCHANGED <<pos, lost, outcome>>

\* the loop runs from its top with the current flow
RunLoop(g, f) ==
    LET it == LoopPass(g, f)
    IN  /\ flow_conv' = it.flow_conv
        /\ CASE it.next = "break"    -> Complete(g, it.flow_conv) /\ prompts' = prompts
             [] it.next = "KeyError" -> Raise("KeyError") /\ prompts' = prompts
             [] OTHER                -> /\ prompts < MaxPrompts
                                        /\ prompts' = prompts + 1
                                        /\ Prompt(it.next)

set_flowrate ==
    /\ pc = "idle"
    /\ \E g \in GasArgs, f \in FlowArgs :
          /\ op' = "set_flowrate"
          /\ gas' = g
          /\ flow' = f
          /\ IF ~Registered(g)
             THEN Raise("ValueError") /\ UNCHANGED <<flow_conv, prompts>>
             ELSE RunLoop(g, f)
    /\ UNCHANGED <<mode, prev_mode, grp, seq, th>>

\* the operator answers the range prompt
OperatorAnswer ==
    /\ pc = "prompt"
    /\ \E interval \in {"Yes", "No", "other"} :
          CASE interval = "Yes" ->
                 \E e \in NewFlowEntries :
                    IF e.numeric
                    THEN flow' = Some(e.value) /\ RunLoop(gas, Some(e.value))
                    ELSE Raise("ValueError") /\ UNCHANGED <<flow, flow_conv, prompts>>
            [] interval = "No" ->
                 Raise("SystemExit") /\ UNCHANGED <<flow, flow_conv, prompts>>
            [] OTHER ->
                 Complete(gas, flow_conv) /\ UNCHANGED <<flow, flow_conv, prompts>>
    /\ UNCHANGED <<mode, prev_mode, op, gas, grp, seq, th>>

\* control is back with the caller; the call's locals are gone
Return ==
    /\ pc = "done"
    /\ pc' = "idle" /\ op' = "none" /\ gas' = "-" /\ flow' = None /\ flow_conv' = 0
    /\ prompts' = 0 /\ outcome' = "none" /\ lost' = {} /\ io' = <<>>
    /\ UNCHANGED <<pos, mode, prev_mode, grp, seq, th>>

\* positions a caller may pass: the two valid ones and others
PositionArgs == {"ON", "OFF", "on", "Unknown"}

\* move_valve_to_position called by the operator for any valve
move_valve ==
    /\ pc = "idle"
    /\ \E valve \in Valves, position \in PositionArgs : \E L \in LostChoices({valve}) :
          LET call == [kind |-> "call", valve |-> "-", arg |-> <<valve, position>>]
              r == move_valve_to_position([pos |-> pos, io |-> <<call>>], valve, position, L)
          IN  /\ pos' = r.pos
              /\ io' = r.io
              /\ lost' = L
    /\ op' = "move_valve_to_position"
    /\ pc' = "done"
    /\ outcome' = "returned"
    /\ UNCHANGED <<mode, prev_mode, gas, flow, flow_conv, prompts, grp, seq, th>>

NextValve == move_valve \/ Return

SpecValve == InitMode /\ [][NextValve]_vars

NextMode == cont_mode_A \/ cont_mode_B \/ pulses_loop_mode_A \/ pulses_loop_mode_B \/ Return

NextFlow == set_flowrate \/ OperatorAnswer \/ Return

SpecMode == InitMode /\ [][NextMode]_vars

SpecFlow == InitFlow /\ [][NextFlow]_vars

(***************************************************************************)
(* flowsms_setpoints: ten calls of set_flowrate, one per node group.  Each *)
(* group is an if/elif chain over its alternative gases.  A group's        *)
(* arguments are read only by its own chain, so the model draws them when  *)
(* the chain runs.  grp.called and grp.written keep, across the groups,    *)
(* the nodes set_flowrate was called for and the nodes that were written.  *)
(***************************************************************************)
\* a group's arguments that are supplied (not left at the default None)
MaxSupplied == 2

\* the chains in the order they appear with the last group doubled
SetpointGroups_o2_twice ==
    << <<"CO_AH", "CO_AL", "CO2_AH", "CO2_AL">>, <<"CO_BH", "CO_BL", "CO2_BH", "CO2_BL">>,
       <<"CH4_A", "C2H6_A", "C3H8_A">>, <<"CH4_B", "C2H6_B", "C3H8_B">>,
       <<"H2_A", "D2_A">>, <<"H2_B", "D2_B">>,
       <<"He_A", "Ar_A", "N2_A">>, <<"He_B", "Ar_B", "N2_B">>,
       <<"O2_A">>, <<"O2_A">> >>

\* the chains in the order they appear; the last gas of a chain is its else
SetpointGroups ==
    << <<"CO_AH", "CO_AL", "CO2_AH", "CO2_AL">>, <<"CO_BH", "CO_BL", "CO2_BH", "CO2_BL">>,
       <<"CH4_A", "C2H6_A", "C3H8_A">>, <<"CH4_B", "C2H6_B", "C3H8_B">>,
       <<"H2_A", "D2_A">>, <<"H2_B", "D2_B">>,
       <<"He_A", "Ar_A", "N2_A">>, <<"He_B", "Ar_B", "N2_B">>,
       <<"O2_A">>, <<"O2_B">> >>

NumGroups == Len(SetpointGroups)

\* the test of every if and elif: "X is not None and X > 0.0"
Qualifies(f) == f # None /\ f[1] > 0

RECURSIVE SelectGas_not_none(_, _)
\* the chain testing "X is not None" alone
SelectGas_not_none(chain, args) ==
    IF Len(chain) = 1 THEN chain[1]
    ELSE IF args[chain[1]] # None THEN chain[1]
    ELSE SelectGas_not_none(Tail(chain), args)

RECURSIVE SelectGas(_, _)
\* the gas an if/elif/else chain calls set_flowrate for
SelectGas(chain, args) ==
    IF Len(chain) = 1 THEN chain[1]
    ELSE IF Qualifies(args[chain[1]]) THEN chain[1]
    ELSE SelectGas(Tail(chain), args)

\* supplied setpoints, hundredths of a sccm: zero, in every range, negative
SetpointValues == {0, 500, -100}

Range(q) == {q[i] : i \in DOMAIN q}

\* the arguments of one group: None by default, at most MaxSupplied given
GroupArgs(chain) ==
    {a \in [Range(chain) -> {None} \cup {Some(v) : v \in SetpointValues}] :
        Cardinality({g \in Range(chain) : a[g] # None}) <= MaxSupplied}

\* the nodes written by the write transactions of a log
WrittenNodes(l) ==
    LET w == SelectSeq(l, LAMBDA e : e.kind = "write_parameters")
    IN  [i \in 1..Len(w) |-> w[i].arg[1].node]

\* flow control with every valve in one position
InitSetpoints ==
    /\ pos \in {p \in [Valves -> {"OFF", "ON"}] : \A v \in Valves : p[v] = p["A"]}
    /\ mode = "undefined"
    /\ prev_mode = "undefined"
    /\ grp = NoGroup /\ seq = NoSequence /\ th = NoSession
    /\ Idle

\* the call: the prologue prints the requested flows
flowsms_setpoints ==
    /\ pc = "idle"
    /\ pc' = "group"
    /\ op' = "flowsms_setpoints"
    /\ grp' = [NoGroup EXCEPT !.step = 1]
    /\ UNCHANGED <<pos, mode, prev_mode, gas, flow, flow_conv, prompts, outcome, lost, io,
                   seq, th>>

\* one chain: its gas is chosen and set_flowrate runs for it
SetpointsGroup ==
    /\ pc = "group"
    /\ \E args \in GroupArgs(SetpointGroups[grp.step]) :
          LET g == SelectGas(SetpointGroups[grp.step], args)
          IN  /\ grp' = [grp EXCEPT !.args = args,
                                    !.applied = [gas |-> g, flow |-> args[g]],
                                    !.called = Append(@, gas_ID[g])]
              /\ gas' = g
              /\ flow' = args[g]
              /\ IF ~Registered(g)
                 THEN Raise("ValueError") /\ UNCHANGED <<flow_conv, prompts>>
                 ELSE RunLoop(g, args[g])
    /\ UNCHANGED <<mode, prev_mode, op, seq, th>>

\* set_flowrate has returned: its locals are gone, the next chain follows,
\* and after the last chain the call is over
SetpointsNext ==
    /\ pc = "done" /\ op = "flowsms_setpoints" /\ outcome = "returned"
    /\ grp.step <= NumGroups
    /\ grp' = [grp EXCEPT !.step = @ + 1, !.args = <<>>,
                          !.applied = NoGroup.applied,
                          !.written = @ \o WrittenNodes(io)]
    /\ pc' = IF grp.step < NumGroups THEN "group" ELSE "done"
    /\ gas' = "-" /\ flow' = None /\ flow_conv' = 0
    /\ prompts' = 0 /\ lost' = {} /\ io' = <<>>
    /\ UNCHANGED <<pos, mode, prev_mode, op, outcome, seq, th>>

\* flowsms_setpoints is over: every chain has run, or an exception left it
SetpointsReturn ==
    /\ pc = "done" /\ op = "flowsms_setpoints"
    /\ outcome # "returned" \/ grp.step > NumGroups
    /\ pc' = "idle" /\ op' = "none" /\ gas' = "-" /\ flow' = None /\ flow_conv' = 0
    /\ prompts' = 0 /\ outcome' = "none" /\ lost' = {} /\ io' = <<>>
    /\ grp' = NoGroup
    /\ UNCHANGED <<pos, mode, prev_mode, seq, th>>

NextSetpoints ==
    flowsms_setpoints \/ SetpointsGroup \/ OperatorAnswer \/ SetpointsNext \/ SetpointsReturn

SpecSetpoints == InitSetpoints /\ [][NextSetpoints]_vars

(***************************************************************************)
(* flowsms_setpoints as one step, for calls in which no flow fails the     *)
(* range check: the ten chains run one after the other with no operator    *)
(* in between.  The caller gives at most one flow of line A and at most    *)
(* one of line B, and every valve takes its commands.                      *)
(***************************************************************************)
LineAGases == UNION {Range(SetpointGroups[k]) : k \in {1, 3, 5, 7, 9}}

LineBGases == UNION {Range(SetpointGroups[k]) : k \in {2, 4, 6, 8, 10}}

\* a flow given by the caller, hundredths of a sccm: zero, or in every range
CallValues == {0, 500}

\* the keyword arguments of one line: all left out, or one gas given
LineArgs(gases) ==
    {[g \in gas_list |-> None]}
    \cup {[g \in gas_list |-> IF g = h THEN Some(v) ELSE None] : h \in gases, v \in CallValues}

\* the keyword arguments of a call
CallArgs(a, b) == [g \in gas_list |-> IF a[g] # None THEN a[g] ELSE b[g]]

RECURSIVE RunGroups_skip_last(_, _, _)
\* the chains without the last one
RunGroups_skip_last(s, k, args) ==
    IF k > NumGroups - 1 \/ s.outcome # "returned"
    THEN s
    ELSE LET g == SelectGas(SetpointGroups[k], args)
             it == LoopPass(g, args[g])
         IN  IF it.next = "KeyError" THEN [s EXCEPT !.outcome = "KeyError"]
             ELSE IF it.next # "break" THEN [s EXCEPT !.outcome = "prompt"]
             ELSE RunGroups_skip_last(AfterLoop([pos |-> s.pos, io |-> s.io], g, it.flow_conv, {}),
                                      k + 1, args)

RECURSIVE RunGroups(_, _, _)
\* the chains from the k-th on: each calls set_flowrate for its gas; an
\* exception ends the call, and "prompt" marks a flow out of its range
RunGroups(s, k, args) ==
    IF k > NumGroups \/ s.outcome # "returned"
    THEN s
    ELSE LET g == SelectGas(SetpointGroups[k], args)
             it == LoopPass(g, args[g])
         IN  IF it.next = "KeyError" THEN [s EXCEPT !.outcome = "KeyError"]
             ELSE IF it.next # "break" THEN [s EXCEPT !.outcome = "prompt"]
             ELSE RunGroups(AfterLoop([pos |-> s.pos, io |-> s.io], g, it.flow_conv, {}),
                            k + 1, args)

\* a call of flowsms_setpoints that meets no range prompt
flowsms_setpoints_in_range ==
    /\ pc = "idle"
    /\ \E a \in LineArgs(LineAGases), b \in LineArgs(LineBGases) :
          LET args == CallArgs(a, b)
              r == RunGroups([pos |-> pos, io |-> <<>>, outcome |-> "returned"], 1, args)
          IN  /\ r.outcome # "prompt"
              /\ pos' = r.pos
              /\ io' = r.io
              /\ outcome' = r.outcome
              /\ grp' = [NoGroup EXCEPT !.step = NumGroups + 1, !.args = args,
                                        !.written = WrittenNodes(r.io)]
    /\ op' = "flowsms_setpoints"
    /\ pc' = "done"
    /\ UNCHANGED <<mode, prev_mode, gas, flow, flow_conv, prompts, lost, seq, th>>

NextSetpointsCall == flowsms_setpoints_in_range \/ SetpointsReturn

SpecSetpointsCall == InitSetpoints /\ [][NextSetpointsCall]_vars

(***************************************************************************)
(* Pulse sequencers.  Times are in milliseconds; seq.clock adds up the     *)
(* time.sleep calls of a sequencer call, those of the valve moves          *)
(* included, and counts no time for the serial traffic itself.  pulses is  *)
(* given in tenths so that int(pulses) has something to cut off.           *)
(***************************************************************************)
\* the largest int(pulses) of a call
MaxPulses == 2

\* time.sleep(0.3) of move_valve_to_position
valve_settle_time == 300

\* valve_actuation_time = 0.145
valve_actuation_time == 145

\* int(pulses): toward zero
IntPulses(tenths) == IntTrunc(tenths, 10)

\* pulses arguments, tenths: negative, fractional, whole
PulseArgs == {-10, 5} \cup {10 * k : k \in 0..MaxPulses} \cup {10 * MaxPulses + 7}

\* time_vo and time_bp arguments
PulseTimes == {50, 1000}

\* the time a logged piece of a call has slept in valve moves
SleepTime(l) == valve_settle_time * Len(SelectSeq(l, LAMBDA e : e.kind = "sleep"))

\* /ATO: valve A goes to its other position
Toggle(p) == IF p = "ON" THEN "OFF" ELSE IF p = "OFF" THEN "ON" ELSE p

\* the strobe addressed to valve B
StrobeCommand_to_B == Cmd("B", "TO")

\* b'/ATO\r'
StrobeCommand == Cmd("A", "TO")

\* the loop running one pulse further
MorePulses_one_more(n, i) == i < n + 1

\* range(0, int_pulses) has another element after i iterations
MorePulses(n, i) == i < n

\* a sequencer call up to its loop: the mode entry and the conversions
SequencerCall(name, m, next) ==
    /\ pc = "idle"
    /\ \E pulses \in PulseArgs, time_vo \in PulseTimes, time_bp \in PulseTimes,
          L \in LostChoices(ModeValves) :
          LET r == EnterMode([pos |-> pos, io |-> <<>>], m, TRUE, L)
          IN  /\ pos' = r.pos
              /\ io' = r.io
              /\ lost' = L
              /\ seq' = [NoSequence EXCEPT !.arg = pulses, !.pulses = IntPulses(pulses),
                                           !.time_vo = time_vo, !.time_bp = time_bp,
                                           !.log = <<m>>, !.clock = SleepTime(r.io),
                                           !.started = SleepTime(r.io)]
              /\ pc' = IF MorePulses(IntPulses(pulses), 0) THEN next ELSE "done"
    /\ mode' = m
    /\ prev_mode' = mode
    /\ op' = name
    /\ outcome' = "returned"
    /\ UNCHANGED <<gas, flow, flow_conv, prompts, grp, th>>

send_pulses_loop_A == SequencerCall("send_pulses_loop_A", "pulses_loop_mode_A", "strobe")

send_pulses_loop_B == SequencerCall("send_pulses_loop_B", "pulses_loop_mode_B", "strobe")

send_pulses_valve_A == SequencerCall("send_pulses_valve_A", "cont_mode_A", "pulse")

\* one iteration of the loop-based sequencers: the strobe, then the sleep
Strobe ==
    /\ pc = "strobe"
    /\ \E L \in LostChoices({StrobeCommand.valve}) :
          /\ pos' = Actuate(pos, StrobeCommand.valve, Toggle(pos[StrobeCommand.valve]), 1, L)
          /\ lost' = L
    /\ io' = << StrobeCommand, [kind |-> "sleep", valve |-> "-", arg |-> seq.time_bp] >>
    /\ seq' = [seq EXCEPT !.i = @ + 1, !.log = Append(@, "strobe"),
                          !.clock = @ + seq.time_bp,
                          !.started = seq.clock,
                          !.period = seq.time_bp]
    /\ pc' = IF MorePulses(seq.pulses, seq.i + 1) THEN "strobe" ELSE "done"
    /\ UNCHANGED <<mode, prev_mode, op, gas, flow, flow_conv, prompts, outcome, grp, th>>

\* first half of an iteration of send_pulses_valve_A: cont_mode_B, then the
\* sleep of time_vo and the actuation time
PulseOpen ==
    /\ pc = "pulse"
    /\ \E L \in LostChoices(ModeValves) :
          LET r == EnterMode([pos |-> pos, io |-> <<>>], "cont_mode_B", TRUE, L)
              t == seq.time_vo + valve_actuation_time
          IN  /\ pos' = r.pos
              /\ io' = Append(r.io, [kind |-> "sleep", valve |-> "-", arg |-> t])
              /\ lost' = L
              /\ seq' = [seq EXCEPT !.log = Append(@, "cont_mode_B"),
                                    !.started = seq.clock,
                                    !.clock = @ + SleepTime(r.io) + t]
    /\ mode' = "cont_mode_B"
    /\ prev_mode' = mode
    /\ pc' = "open"
    /\ UNCHANGED <<op, gas, flow, flow_conv, prompts, outcome, grp, th>>

\* second half: cont_mode_A, then the sleep of time_bp
PulseClose ==
    /\ pc = "open"
    /\ \E L \in LostChoices(ModeValves) :
          LET r == EnterMode([pos |-> pos, io |-> <<>>], "cont_mode_A", TRUE, L)
              t == seq.clock + SleepTime(r.io) + seq.time_bp
          IN  /\ pos' = r.pos
              /\ io' = Append(r.io, [kind |-> "sleep", valve |-> "-", arg |-> seq.time_bp])
              /\ lost' = L
              /\ seq' = [seq EXCEPT !.i = @ + 1, !.log = Append(@, "cont_mode_A"),
                                    !.clock = t,
                                    !.period = t - seq.started]
    /\ mode' = "cont_mode_A"
    /\ prev_mode' = mode
    /\ pc' = IF MorePulses(seq.pulses, seq.i + 1) THEN "pulse" ELSE "done"
    /\ UNCHANGED <<op, gas, flow, flow_conv, prompts, outcome, grp, th>>

\* the sequencer has returned: its locals are gone
SequencerReturn ==
    /\ pc = "done" /\ seq # NoSequence
    /\ pc' = "idle" /\ op' = "none" /\ outcome' = "none" /\ lost' = {} /\ io' = <<>>
    /\ seq' = NoSequence
    /\ UNCHANGED <<pos, mode, prev_mode, gas, flow, flow_conv, prompts, grp, th>>

NextPulse ==
    \/ send_pulses_loop_A \/ send_pulses_loop_B \/ send_pulses_valve_A
    \/ Strobe \/ PulseOpen \/ PulseClose \/ SequencerReturn

SpecPulse == InitFlow /\ [][NextPulse]_vars

\* mode entries and sequencers called in any order; Return ends a mode
\* entry, SequencerReturn a sequencer
NextModePulse ==
    \/ cont_mode_A \/ cont_mode_B \/ pulses_loop_mode_A \/ pulses_loop_mode_B
    \/ (seq = NoSequence /\ Return)
    \/ NextPulse

SpecModePulse == InitFlow /\ [][NextModePulse]_vars

(***************************************************************************)
(* flowsms_status.  A device reading dev gives, for the flow nodes 4..13,  *)
(* the measured flow, the setpoint and the fluid number, and for the       *)
(* pressure nodes 3 and 14 the pressure, all as format(x, ".2f") renders   *)
(* them: in hundredths.  read_parameters answers each requested parameter  *)
(* with one value.                                                         *)
(***************************************************************************)
FlowNodes == 4..13

ID_P_A == 3

ID_P_B == 14

\* a requested parameter
Parm(node, proc_nr, parm_nr) == [node |-> node, proc_nr |-> proc_nr, parm_nr |-> parm_nr]

\* measured flow, setpoint and fluid number of a node
FlowParms(node) == << Parm(node, 33, 0), Parm(node, 33, 3), Parm(node, 1, 16) >>

\* the parameter lists, under the names of their channels
StatusParams ==
    [h2_d2_a   |-> FlowParms(4),
     h2_d2_b   |-> FlowParms(13),
     o2_a      |-> << Parm(5, 33, 0), Parm(5, 33, 3) >>,
     o2_b      |-> << Parm(12, 33, 0), Parm(12, 33, 3) >>,
     hc_a      |-> FlowParms(7),
     hc_b      |-> FlowParms(10),
     co_co2_a  |-> FlowParms(6),
     co_co2_b  |-> FlowParms(11),
     carrier_a |-> FlowParms(8),
     carrier_b |-> << Parm(9, 33, 0), Parm(8, 33, 3), Parm(9, 1, 16) >>,
     p_a       |-> << Parm(ID_P_A, 33, 0) >>,
     p_b       |-> << Parm(ID_P_B, 33, 0) >>]

\* the order of the read_parameters calls
ReadOrder == << "h2_d2_a", "h2_d2_b", "o2_a", "o2_b", "co_co2_a", "co_co2_b",
                "hc_a", "hc_b", "carrier_a", "carrier_b", "p_a", "p_b" >>

\* the order of the channels in the flow report
ReportOrder == << "h2_d2_a", "h2_d2_b", "o2_a", "o2_b", "co_co2_a", "co_co2_b",
                  "hc_a", "hc_b", "carrier_a", "carrier_b" >>

\* the value the device answers a parameter with
Reply(dev, p) ==
    IF p.proc_nr = 33 /\ p.parm_nr = 0
    THEN (IF p.node \in FlowNodes THEN dev.measure[p.node] ELSE dev.pressure[p.node])
    ELSE IF p.proc_nr = 33 /\ p.parm_nr = 3 THEN dev.setpoint[p.node]
    ELSE dev.fluid[p.node]

read_parameters(dev, params) == [i \in 1..Len(params) |-> Reply(dev, params[i])]

\* the twelve lists lst_x of formatted values
StatusLists(dev) == [c \in DOMAIN StatusParams |-> read_parameters(dev, StatusParams[c])]

\* the twelve read transactions as the log shows them
StatusReads(dev) ==
    [i \in 1..Len(ReadOrder) |->
        [kind |-> "read_parameters", valve |-> "-",
         arg |-> [channel |-> ReadOrder[i], params |-> StatusParams[ReadOrder[i]],
                  values |-> StatusLists(dev)[ReadOrder[i]]]]]

RECURSIVE ReportLines(_, _)
\* the flow report: a line for each channel whose list has a setpoint other
\* than zero, then the totals and the pressure report
ReportLines(lst, channels) ==
    IF channels = <<>> THEN << [kind |-> "report", valve |-> "-", arg |-> "totals"],
                               [kind |-> "report", valve |-> "-", arg |-> "pressure"] >>
    ELSE (IF lst[Head(channels)][2] = 0 THEN << >>
          ELSE << [kind |-> "report", valve |-> "-", arg |-> Head(channels)] >>)
         \o ReportLines(lst, Tail(channels))

\* the body after the delay: the reads, the decoding, and the two loops over
\* the pressure answers, each of which returns at its first element; the
\* report follows the loops
StatusBody(dev) ==
    LET lst == StatusLists(dev)
    IN  IF Len(lst.p_a) > 0
        THEN [io |-> StatusReads(dev), ret |-> Some(lst.p_a[1])]
        ELSE IF Len(lst.p_b) > 0
        THEN [io |-> StatusReads(dev), ret |-> Some(lst.p_b[1])]
        ELSE [io |-> StatusReads(dev) \o ReportLines(lst, ReportOrder), ret |-> None]

\* setpoints the nodes may hold and pressures the lines may have
DeviceSetpoints == {0, 500}

Pressures == {1470, 2000}

\* the nodes of a device reading that hold a setpoint other than zero
MaxFlowing == 2

\* device readings: the flow has settled at the setpoint, fluid number 0
Devices ==
    {[measure |-> sp, setpoint |-> sp, fluid |-> [n \in FlowNodes |-> 0],
      pressure |-> (ID_P_A :> pa) @@ (ID_P_B :> pb)] :
        sp \in {f \in [FlowNodes -> DeviceSetpoints] :
                  Cardinality({n \in FlowNodes : f[n] # 0}) <= MaxFlowing},
        pa \in Pressures, pb \in Pressures}

\* device readings that differ in the pressures alone
PressureReadings == {d \in Devices : \A n \in FlowNodes : d.setpoint[n] = 0}

Delays == {0, 500}

\* a call of flowsms_status by the operator
flowsms_status ==
    /\ pc = "idle"
    /\ \E delay \in Delays, dev \in Devices :
          LET r == StatusBody(dev)
          IN  io' = << [kind |-> "sleep", valve |-> "-", arg |-> delay] >> \o r.io
                    \o << [kind |-> "return", valve |-> "-", arg |-> r.ret] >>
    /\ op' = "flowsms_status"
    /\ pc' = "done"
    /\ outcome' = "returned"
    /\ UNCHANGED <<pos, mode, prev_mode, gas, flow, flow_conv, prompts, lost, grp, seq, th>>

\* the block a loop prints after its two flowsms_status calls, with the
\* pressures the two calls read at the nodes of line A and of line B
StatusBlock(d1, d2) ==
    [pressure_a |-> StatusBody(d1).ret,
     pressure_b |-> StatusBody(d2).ret,
     read_a |-> {d1.pressure[ID_P_A], d2.pressure[ID_P_A]},
     read_b |-> {d1.pressure[ID_P_B], d2.pressure[ID_P_B]}]

(***************************************************************************)
(* Thermal events.  Temperatures and rates are in tenths, as the           *)
(* controller registers hold them.  th.rate_sp and th.sp are the locals    *)
(* the two try blocks leave: the number, or None after any exception.      *)
(* th.polls counts the polls whose comparison was made, th.blocks the      *)
(* status blocks printed, th.status_reads the flowsms_status calls.        *)
(***************************************************************************)
\* the polls of one event that print a status block
MaxPolls == 2

\* float(x): the number, or None where float raises
Float(a) == IF a.kind = "number" THEN Some(a.value) ELSE None

\* what float(x) raises
FloatError(a) == IF a.kind = "None" THEN "TypeError" ELSE "ValueError"

RampRateRegister == 35

\* heating_event writes its setpoint to register 24, cooling_event to 2
SetpointRegister(e) == IF e = "heating_event" THEN 24 ELSE 2

\* process-value register read by the polling loop
PVRegister == 1

\* process-value register read by temperature_ramping_event
RampPVRegister == 289

\* arguments: left out, not a number, a number
RateArgs == {NoArg, TextArg, NumArg(100)}

TargetArgs == {NoArg, TextArg, NumArg(1000)}

\* measured temperatures: below, at and above the numeric target
PVValues == {250, 1000, 1500}

ReadErrors == {"IOError", "ValueError"}

\* the heating loop going on at a measured value equal to the setpoint
HeatingGoesOn_at_equal(pv, sp) == pv <= sp

\* float(temp_tc) < float(sp)
HeatingGoesOn(pv, sp) == pv < sp

\* the cooling loop going on at a measured value equal to the setpoint
CoolingGoesOn_at_equal(pv, sp) == pv >= sp

\* float(temp_tc) > float(sp)
CoolingGoesOn(pv, sp) == pv > sp

\* the loop test of the running event
GoesOn(e, pv, sp) == IF e = "heating_event" THEN HeatingGoesOn(pv, sp) ELSE CoolingGoesOn(pv, sp)

\* the ramp taking the cooling side at a value equal to the target
RampCools_at_equal(pv, sp) == pv >= sp

\* float(temp_pv) > float(sp)
RampCools(pv, sp) == pv > sp

\* one try block of an event: the conversion, then the register write, which
\* the link lets through or not; any exception leaves None in the local
TryWrite(t, local, reg, arg, link_ok) ==
    IF Float(arg) # None /\ link_ok
    THEN [t EXCEPT ![local] = Float(arg), !.regs = [@ EXCEPT ![reg] = arg.value]]
    ELSE [t EXCEPT ![local] = None, !.failed = @ \cup {local}]

\* an event up to its loop: the two try blocks
EventEntry(t, e, rate, target, rate_ok, sp_ok) ==
    LET t0 == [t EXCEPT !.event = e, !.rate_arg = rate, !.sp_arg = target,
                        !.before = t.regs, !.failed = {}, !.pv = None,
                        !.last = "none", !.polls = 0, !.blocks = 0, !.status_reads = 0]
        t1 == TryWrite(t0, "rate_sp", RampRateRegister, rate, rate_ok)
    IN  TryWrite(t1, "sp", SetpointRegister(e), target, sp_ok)

\* what an event's entry prints and writes
EntryLog(t) ==
    << [kind |-> "print", valve |-> "-", arg |-> t.event] >>
    \o (IF Float(t.rate_arg) # None
        THEN << [kind |-> "write_register", valve |-> "-", arg |-> RampRateRegister] >>
        ELSE << >>)
    \o (IF Float(t.sp_arg) # None
        THEN << [kind |-> "write_register", valve |-> "-", arg |-> SetpointRegister(t.event)] >>
        ELSE << >>)

\* a fresh controller, no event running
InitThermal ==
    /\ pos \in {p \in [Valves -> {"OFF", "ON"}] : \A v \in Valves : p[v] = p["A"]}
    /\ mode = "undefined"
    /\ prev_mode = "undefined"
    /\ grp = NoGroup /\ seq = NoSequence /\ th = NoSession
    /\ Idle

\* heating_event or cooling_event called by the operator
EventCall(e) ==
    /\ pc = "idle"
    /\ \E rate \in RateArgs, target \in TargetArgs, rate_ok \in BOOLEAN, sp_ok \in BOOLEAN :
          LET t == EventEntry(th, e, rate, target, rate_ok, sp_ok)
          IN  th' = t /\ io' = EntryLog(t)
    /\ op' = e
    /\ pc' = "polling"
    /\ UNCHANGED <<pos, mode, prev_mode, gas, flow, flow_conv, prompts, outcome, lost, grp, seq>>

heating_event == EventCall("heating_event")

cooling_event == EventCall("cooling_event")

\* the registers a poll reads, in order: the reactor temperature, the
\* programmer temperature and the output power
PollRegisters == << 1, 5, 85 >>

\* the first k reads of a poll as the log shows them
PollReads(k) ==
    [i \in 1..k |-> [kind |-> "read_register", valve |-> "-", arg |-> PollRegisters[i]]]

\* a failed poll treated as the setpoint reached
PollFailed_gives_up ==
    /\ pc = "polling"
    /\ \E exc \in ReadErrors, k \in 1..Len(PollRegisters), pv \in PVValues :
          /\ th' = [th EXCEPT !.last = exc,
                              !.temp_tc = IF k > 1 THEN Some(pv) ELSE @]
          /\ io' = PollReads(k) \o << [kind |-> "raise", valve |-> "-", arg |-> exc] >>
    /\ pc' = "done"
    /\ outcome' = "returned"
    /\ UNCHANGED <<pos, mode, prev_mode, op, gas, flow, flow_conv, prompts, lost, grp, seq>>

\* a poll whose k-th read raises IOError or ValueError: continue; the reads
\* before it have assigned their locals, temp_tc among them
PollFailed ==
    /\ pc = "polling"
    /\ \E exc \in ReadErrors, k \in 1..Len(PollRegisters), pv \in PVValues :
          /\ th' = [th EXCEPT !.last = exc,
                              !.temp_tc = IF k > 1 THEN Some(pv) ELSE @]
          /\ io' = PollReads(k) \o << [kind |-> "raise", valve |-> "-", arg |-> exc] >>
    /\ UNCHANGED <<pos, mode, prev_mode, pc, op, gas, flow, flow_conv, prompts, outcome, lost,
                   grp, seq>>

\* a poll that reads well with sp None: float(sp) raises TypeError, continue
PollNoSetpoint ==
    /\ pc = "polling" /\ th.sp = None
    /\ \E pv \in PVValues : th' = [th EXCEPT !.last = "TypeError", !.pv = Some(pv), !.temp_tc = Some(pv)]
    /\ io' = PollReads(3)
    /\ UNCHANGED <<pos, mode, prev_mode, pc, op, gas, flow, flow_conv, prompts, outcome, lost,
                   grp, seq>>

\* a poll that reads well and finds the loop test true: two flowsms_status
\* calls, the status block, one second of sleep; the line pressures are the
\* same at both calls
PollStatus ==
    /\ pc = "polling" /\ th.sp # None /\ th.polls < MaxPolls
    /\ \E pv \in PVValues, d \in PressureReadings :
          /\ GoesOn(th.event, pv, th.sp[1])
          /\ th' = [th EXCEPT !.last = "status", !.pv = Some(pv), !.polls = @ + 1,
                              !.temp_tc = Some(pv),
                              !.block = StatusBlock(d, d),
                              !.blocks = @ + 1, !.status_reads = @ + 2]
    /\ io' = PollReads(3) \o <<
                [kind |-> "call", valve |-> "-", arg |-> "flowsms_status"],
                [kind |-> "call", valve |-> "-", arg |-> "flowsms_status"],
                [kind |-> "print", valve |-> "-", arg |-> "status block"],
                [kind |-> "sleep", valve |-> "-", arg |-> 1000] >>
    /\ UNCHANGED <<pos, mode, prev_mode, pc, op, gas, flow, flow_conv, prompts, outcome, lost,
                   grp, seq>>

\* a poll that reads well and finds the loop test false: break; the event
\* returns, and so does temperature_ramping_event when it made the call
PollReached ==
    /\ pc = "polling" /\ th.sp # None
    /\ \E pv \in PVValues :
          /\ ~GoesOn(th.event, pv, th.sp[1])
          /\ th' = [th EXCEPT !.last = "reached", !.pv = Some(pv), !.polls = @ + 1,
                              !.temp_tc = Some(pv)]
    /\ io' = PollReads(3) \o <<
                [kind |-> "print", valve |-> "-", arg |-> "setpoint reached"] >>
    /\ pc' = "done"
    /\ outcome' = "returned"
    /\ UNCHANGED <<pos, mode, prev_mode, op, gas, flow, flow_conv, prompts, lost, grp, seq>>

\* the call: nothing happens before the loop
temperature_ramping_event ==
    /\ pc = "idle"
    /\ \E rate \in RateArgs, target \in TargetArgs :
          th' = [th EXCEPT !.ramp_rate = rate, !.ramp_sp = target]
    /\ op' = "temperature_ramping_event"
    /\ pc' = "ramp"
    /\ UNCHANGED <<pos, mode, prev_mode, gas, flow, flow_conv, prompts, outcome, lost, io,
                   grp, seq>>

\* the read of the process value raises IOError or ValueError: continue
RampReadFailed ==
    /\ pc = "ramp"
    /\ \E exc \in ReadErrors : th' = [th EXCEPT !.last = exc]
    /\ io' = << [kind |-> "read_register", valve |-> "-", arg |-> RampPVRegister] >>
    /\ UNCHANGED <<pos, mode, prev_mode, pc, op, gas, flow, flow_conv, prompts, outcome, lost,
                   grp, seq>>

\* the read succeeds and float(sp) raises: TypeError is caught (continue),
\* ValueError leaves the call
RampNoTarget ==
    /\ pc = "ramp" /\ Float(th.ramp_sp) = None
    /\ \E pv \in PVValues : th' = [th EXCEPT !.last = FloatError(th.ramp_sp), !.ramp_pv = Some(pv)]
    /\ io' = << [kind |-> "read_register", valve |-> "-", arg |-> RampPVRegister] >>
    /\ IF FloatError(th.ramp_sp) = "TypeError"
       THEN UNCHANGED <<pc, outcome>>
       ELSE pc' = "done" /\ outcome' = "ValueError"
    /\ UNCHANGED <<pos, mode, prev_mode, op, gas, flow, flow_conv, prompts, lost, grp, seq>>

\* the read succeeds and the comparison is made: cooling_event or
\* heating_event is called with the arguments of the ramp
RampDispatch ==
    /\ pc = "ramp" /\ Float(th.ramp_sp) # None
    /\ \E pv \in PVValues, rate_ok \in BOOLEAN, sp_ok \in BOOLEAN :
          LET e == IF RampCools(pv, Float(th.ramp_sp)[1]) THEN "cooling_event" ELSE "heating_event"
              t == EventEntry(th, e, th.ramp_rate, th.ramp_sp, rate_ok, sp_ok)
          IN  /\ th' = [t EXCEPT !.ramp_pv = Some(pv), !.dispatched = Append(@, e)]
              /\ io' = << [kind |-> "read_register", valve |-> "-", arg |-> RampPVRegister] >>
                       \o EntryLog(t)
    /\ pc' = "polling"
    /\ UNCHANGED <<pos, mode, prev_mode, op, gas, flow, flow_conv, prompts, outcome, lost,
                   grp, seq>>


(***************************************************************************)
(* The live status block of the waiting and polling loops, time_event and  *)
(* IR_STATUS.  Times are in milliseconds; th.elapsed is time.time() minus  *)
(* start_time as the next pass of the loop will compute it.                *)
(***************************************************************************)
\* time_in_seconds: negative, zero, one pass, several passes
WaitArgs == {-1000, 0, 1000, 2500}

\* what a pass takes beyond its sleep of one second
ReadLags == {0, 250}

\* the loop waiting on at an elapsed time equal to the wait
TimeGoesOn_at_equal(elapsed, wait) == elapsed <= wait

\* elapsed_time < time_in_seconds
TimeGoesOn(elapsed, wait) == elapsed < wait

time_event ==
    /\ pc = "idle"
    /\ \E wait \in WaitArgs : th' = [th EXCEPT !.event = "time_event", !.wait = wait]
    /\ op' = "time_event"
    /\ pc' = "waiting"
    /\ UNCHANGED <<pos, mode, prev_mode, gas, flow, flow_conv, prompts, outcome, lost, io,
                   grp, seq>>

\* a pass with time left: two flowsms_status calls, the block, the sleep
TimePoll ==
    /\ pc = "waiting" /\ TimeGoesOn(th.elapsed, th.wait)
    /\ \E d1 \in PressureReadings, d2 \in PressureReadings, lag \in ReadLags :
          th' = [th EXCEPT !.block = StatusBlock(d1, d2), !.blocks = @ + 1,
                           !.status_reads = @ + 2, !.polls = @ + 1,
                           !.elapsed = @ + 1000 + lag]
    /\ io' = << [kind |-> "call", valve |-> "-", arg |-> "flowsms_status"],
                [kind |-> "call", valve |-> "-", arg |-> "flowsms_status"],
                [kind |-> "print", valve |-> "-", arg |-> "status block"],
                [kind |-> "sleep", valve |-> "-", arg |-> 1000] >>
    /\ UNCHANGED <<pos, mode, prev_mode, pc, op, gas, flow, flow_conv, prompts, outcome, lost,
                   grp, seq>>

\* a pass with no time left: the completion message, break, the date
TimeUp ==
    /\ pc = "waiting" /\ ~TimeGoesOn(th.elapsed, th.wait)
    /\ th' = [th EXCEPT !.polls = @ + 1]
    /\ io' = << [kind |-> "print", valve |-> "-", arg |-> "wait completed"],
                [kind |-> "print", valve |-> "-", arg |-> "date and time"] >>
    /\ pc' = "done"
    /\ outcome' = "returned"
    /\ UNCHANGED <<pos, mode, prev_mode, op, gas, flow, flow_conv, prompts, lost, grp, seq>>

\* the digital register IR_STATUS polls
IRRegister == 361

\* values the register may read
IRValues == {0, 1, 2}

\* the names bound at module level by the import statements
ModuleNames == {"os", "time", "serial", "list_ports", "datetime", "propar", "minimalmodbus"}

IR_STATUS ==
    /\ pc = "idle"
    /\ th' = [th EXCEPT !.event = "IR_STATUS"]
    /\ op' = "IR_STATUS"
    /\ pc' = "ir_poll"
    /\ UNCHANGED <<pos, mode, prev_mode, gas, flow, flow_conv, prompts, outcome, lost, io,
                   grp, seq>>

\* the read raises IOError or ValueError: continue
IRReadFailed ==
    /\ pc = "ir_poll"
    /\ \E exc \in ReadErrors : th' = [th EXCEPT !.last = exc]
    /\ io' = << [kind |-> "read_register", valve |-> "-", arg |-> IRRegister] >>
    /\ UNCHANGED <<pos, mode, prev_mode, pc, op, gas, flow, flow_conv, prompts, outcome, lost,
                   grp, seq>>

\* the read succeeds: 1 breaks; 0 calls sleep(0.1), a name that only exists
\* if the module bound it, else NameError; any other value polls again
IRRead ==
    /\ pc = "ir_poll"
    /\ \E result \in IRValues :
          /\ th' = [th EXCEPT !.last = "read", !.pv = Some(result), !.polls = 1]
          /\ io' = << [kind |-> "read_register", valve |-> "-", arg |-> IRRegister] >>
                   \o (IF result = 0 /\ "sleep" \in ModuleNames
                       THEN << [kind |-> "sleep", valve |-> "-", arg |-> 100] >> ELSE << >>)
          /\ IF result = 1 THEN pc' = "done" /\ outcome' = "returned"
             ELSE IF result = 0 /\ "sleep" \notin ModuleNames
             THEN pc' = "done" /\ outcome' = "NameError"
             ELSE UNCHANGED <<pc, outcome>>
    /\ UNCHANGED <<pos, mode, prev_mode, op, gas, flow, flow_conv, prompts, lost, grp, seq>>

\* the call is over; the controller keeps its registers
ThermalReturn ==
    /\ pc = "done"
    /\ op \in {"heating_event", "cooling_event", "temperature_ramping_event",
               "flowsms_status", "time_event", "IR_STATUS"}
    /\ pc' = "idle" /\ op' = "none" /\ outcome' = "none" /\ io' = <<>>
    /\ th' = [NoSession EXCEPT !.regs = th.regs, !.before = th.regs]
    /\ UNCHANGED <<pos, mode, prev_mode, gas, flow, flow_conv, prompts, lost, grp, seq>>

NextThermal ==
    \/ heating_event \/ cooling_event \/ temperature_ramping_event
    \/ PollFailed \/ PollNoSetpoint \/ PollStatus \/ PollReached
    \/ RampReadFailed \/ RampNoTarget \/ RampDispatch
    \/ flowsms_status \/ time_event \/ TimePoll \/ TimeUp
    \/ IR_STATUS \/ IRReadFailed \/ IRRead \/ ThermalReturn

SpecThermal == InitThermal /\ [][NextThermal]_vars

\* the loop keeps polling, and the link and the furnace see to it that a
\* poll which reads well and meets the exit test comes whenever the loop
\* has such a test to make
SpecThermalFair == SpecThermal /\ WF_vars(PollReached)

(***************************************************************************)
(* Properties of the routing-mode engine (SpecMode).                       *)
(***************************************************************************)
\* the valve vectors (A, B, C) of the routing table
RoutingTable ==
    [cont_mode_A        |-> <<"OFF", "OFF", "OFF">>,
     cont_mode_B        |-> <<"OFF", "ON",  "OFF">>,
     pulses_loop_mode_A |-> <<"ON",  "OFF", "ON">>,
     pulses_loop_mode_B |-> <<"ON",  "ON",  "ON">>]

ModeValvePositions(p) == <<p["A"], p["B"], p["C"]>>

ValveCommands(l) == SelectSeq(l, LAMBDA e : e.kind = "valve_cmd")

ActuationOf(position) == IF position = "ON" THEN "CC" ELSE "CW"

\* the three commands an entry of m sends when nothing is resent
TableCommands(m) ==
    << Cmd("A", ActuationOf(RoutingTable[m][1])),
       Cmd("B", ActuationOf(RoutingTable[m][2])),
       Cmd("C", ActuationOf(RoutingTable[m][3])) >>

\* C1: when a mode-entry operation has returned and the valves obeyed every
\* command of the call, valves (A, B, C) are exactly in the mode's table
\* vector, whatever their positions were before the call.
C1_ModeVectorApplied ==
    \A m \in ModeNames :
       (pc = "done" /\ op = m /\ lost = {}) => ModeValvePositions(pos) = RoutingTable[m]

C1_Witness ==
    /\ pc = "done" /\ op = "pulses_loop_mode_A" /\ lost = {}
    /\ prev_mode = "cont_mode_B"
    /\ ModeValvePositions(pos) = <<"ON", "OFF", "ON">>

\* C2: entering the mode whose vector the valves already hold (the mode
\* entered last) changes no valve position, and the entry sends exactly the
\* mode's three commands again, none of them resent.
C2_ReentryIdempotent ==
    [][\A m \in ModeNames :
          (/\ pc = "idle" /\ mode = m /\ ModeValvePositions(pos) = RoutingTable[m]
           /\ pc' = "done" /\ op' = m)
          => (pos' = pos /\ ValveCommands(io') = TableCommands(m))]_vars

C2_Witness ==
    /\ pc = "done" /\ op = "cont_mode_B" /\ prev_mode = "cont_mode_B"
    /\ ModeValvePositions(pos) = <<"OFF", "ON", "OFF">>
    /\ pos["D"] = "ON"
    /\ Len(ValveCommands(io)) = 3

(***************************************************************************)
(* Properties of set_flowrate (SpecFlow).                                  *)
(***************************************************************************)
MfcWrites(l) == SelectSeq(l, LAMBDA e : e.kind = "write_parameters")

\* the setpoint parameter (proc 1, parm 1) of a write transaction
Setpoint(e) == e.arg[Len(e.arg)]

ValveTraffic(l) ==
    SelectSeq(l, LAMBDA e : e.kind \in {"valve_cmd", "valve_query", "valve_readback"})

RoutingCalls(l) == SelectSeq(l, LAMBDA e : e.kind = "call")

Prompts(l) == SelectSeq(l, LAMBDA e : e.kind = "prompt")

InRange(g, fc) == gas_flow_range[g][1] <= fc /\ fc <= gas_flow_range[g][2]

\* the call has written exactly one transaction, whose setpoint is code
WroteCode(code) ==
    /\ Len(MfcWrites(io)) = 1
    /\ Setpoint(MfcWrites(io)[1]).parm_nr = 1
    /\ Setpoint(MfcWrites(io)[1]).node = gas_ID[gas]
    /\ Setpoint(MfcWrites(io)[1]).data = code

\* the call is in the state its first pass through the loop left it in, so
\* flow is still the argument of the call
FirstPass ==
    /\ op = "set_flowrate" /\ gas \in gas_list
    /\ (pc = "done" /\ prompts = 0) \/ (pc = "prompt" /\ prompts = 1)

\* C3: set_flowrate(gas, None) and set_flowrate(gas, 0.0) return after
\* writing setpoint code 0 to the gas's node, having invoked no routing
\* action and sent nothing on the valve link, for every registered gas.
C3_ZeroFlowWritesZero ==
    (/\ pc = "done" /\ op = "set_flowrate" /\ gas \in gas_list /\ prompts = 0
     /\ (flow = None \/ flow = Some(0)))
    => (/\ outcome = "returned"
        /\ WroteCode(0)
        /\ ValveTraffic(io) = <<>>
        /\ RoutingCalls(io) = <<>>)

C3_Witness ==
    /\ pc = "done" /\ op = "set_flowrate" /\ gas = "CO2_BL" /\ flow = Some(0)
    /\ prompts = 0 /\ outcome = "returned" /\ WroteCode(0)
    /\ Setpoint(MfcWrites(io)[1]).node = 11

\* C4: for every registered gas and every non-zero requested flow f (the
\* calibration factor being 1.0 for every gas): with f inside [min, max], both
\* ends included, set_flowrate goes on to the write with no prompt; with f
\* outside, the range prompt is raised before anything is written.
C4_RangeCheckDecides ==
    (FirstPass /\ flow # None /\ flow # Some(0))
    => IF InRange(gas, flow[1])
       THEN /\ pc = "done" /\ outcome = "returned"
            /\ Prompts(io) = <<>>
            /\ Len(MfcWrites(io)) = 1
       ELSE /\ pc = "prompt"
            /\ Len(Prompts(io)) = 1
            /\ MfcWrites(io) = <<>> /\ ValveTraffic(io) = <<>>

\* C5: no MFC write and no valve command is issued for a flow_conv outside
\* [min, max], whatever the operator answers; an abort ends the call with no
\* write.
C5_OutOfRangeNeverWritten ==
    (op = "set_flowrate" /\ gas \in gas_list)
    => /\ (MfcWrites(io) # <<>> \/ ValveTraffic(io) # <<>>)
            => (flow_conv = 0 \/ InRange(gas, flow_conv))
       /\ outcome = "SystemExit" => MfcWrites(io) = <<>>

\* round(n / d) for n >= 0, d > 0: to the nearest integer, ties to even
RoundNearest(n, d) ==
    LET q == n \div d
        r == n % d
    IN  IF 2 * r < d THEN q
        ELSE IF 2 * r > d THEN q + 1
        ELSE IF q % 2 = 0 THEN q ELSE q + 1

\* the call has returned after a write for a validated flow
WroteValidated ==
    /\ pc = "done" /\ op = "set_flowrate" /\ outcome = "returned"
    /\ Len(MfcWrites(io)) = 1
    /\ flow_conv = 0 \/ InRange(gas, flow_conv)

\* C6 as stated: the code written is flow_conv * 32000 / divisor rounded to
\* the nearest integer, for every registered gas and validated flow.
C6_CodeIsRounded ==
    WroteValidated
    => WroteCode(RoundNearest(flow_conv * 32000, 100 * gas_float_to_int_factor[gas]))

\* C6 amended: the code written is flow_conv * 32000 / divisor truncated to
\* an integer, that is the code c with c <= flow_conv * 32000 / divisor < c + 1,
\* for every registered gas and validated flow; He_A at 30 sccm gives 16000.
C6_CodeIsTruncated ==
    WroteValidated
    => LET c == Setpoint(MfcWrites(io)[1]).data
           n == flow_conv * 32000
           d == 100 * gas_float_to_int_factor[gas]
       IN  /\ WroteCode(c)
           /\ c * d <= n /\ n < (c + 1) * d
           /\ (gas = "He_A" /\ flow_conv = 3000) => c = 16000

C6_Witness ==
    /\ WroteValidated /\ gas = "H2_A" /\ flow_conv = 70
    /\ WroteCode(746)

\* C7: for every registered gas and every in-range requested flow, the flow
\* decoded from the written code, code * divisor / 32000 * calibrationFactor,
\* differs from the requested flow by at most one code step,
\* divisor / 32000 * calibrationFactor.
C7_RoundTripWithinOneStep ==
    (/\ pc = "done" /\ op = "set_flowrate" /\ outcome = "returned"
     /\ flow # None /\ gas \in DOMAIN calibration_factor
     /\ InRange(gas, flow_conv))
    => LET c == Setpoint(MfcWrites(io)[1]).data
           step == 100 * gas_float_to_int_factor[gas] * calibration_factor[gas]
           diff == c * step - flow[1] * 32000
       IN  /\ Len(MfcWrites(io)) = 1
           /\ diff <= step /\ -diff <= step

C7_Witness ==
    /\ pc = "done" /\ op = "set_flowrate" /\ outcome = "returned"
    /\ gas = "CO_AL" /\ flow = Some(500) /\ flow_conv = 500
    /\ WroteCode(8888)

\* C8: within one set_flowrate call nothing of the routing action comes after
\* the MFC write, and when the call has written a flow_conv > 0 the routing
\* action was invoked, its valve command sent and its position read back,
\* before the write.
C8_RoutingBeforeWrite ==
    op = "set_flowrate"
    => /\ \A i, j \in DOMAIN io :
             (/\ io[i].kind \in {"call", "valve_cmd", "valve_query", "valve_readback"}
              /\ io[j].kind = "write_parameters") => i < j
       /\ (pc = "done" /\ outcome = "returned" /\ flow_conv > 0)
             => \E j \in DOMAIN io :
                   /\ io[j].kind = "write_parameters"
                   /\ \E i \in 1..(j - 1) : io[i].kind = "call"
                   /\ gas \notin {"O2_A", "O2_B"}
                         => \E i, k \in 1..(j - 1) :
                               /\ i < k
                               /\ io[i].kind = "valve_cmd"
                               /\ io[k].kind = "valve_readback"

C8_Witness ==
    /\ pc = "done" /\ op = "set_flowrate" /\ outcome = "returned"
    /\ gas = "He_A" /\ flow_conv = 3000 /\ WroteCode(16000)
    /\ Len(io) = 7
    /\ io[2] = Cmd("G", "CW")
    /\ io[7].kind = "write_parameters"

\* C9: set_flowrate with a gas identifier that is not registered raises
\* ValueError having sent no valve command and issued no MFC write; every
\* valve position is as it was before the call.
C9_UnknownGasRejected ==
    [][(pc = "idle" /\ op' = "set_flowrate" /\ gas' \notin gas_list)
          => (/\ pc' = "done" /\ outcome' = "ValueError"
              /\ io' = <<>>
              /\ pos' = pos)]_vars

C9_Witness ==
    /\ pc = "done" /\ op = "set_flowrate" /\ gas = "Xe_A" /\ flow = Some(500)
    /\ outcome = "ValueError" /\ io = <<>>

\* C10: set_flowrate(gas, f) with f inside the gas's range returns after an
\* MFC write for every gas of gas_list: no dictionary lookup of the call
\* fails (KeyError) for a registered gas.
C10_RegisteredGasCompletes ==
    (/\ pc = "done" /\ op = "set_flowrate" /\ gas \in gas_list /\ prompts = 0
     /\ flow # None /\ InRange(gas, flow[1]))
    => (outcome = "returned" /\ outcome # "KeyError" /\ Len(MfcWrites(io)) = 1)


(***************************************************************************)
(* Properties of flowsms_setpoints (SpecSetpoints).                        *)
(***************************************************************************)
\* the priority order of each node group, highest first
PriorityOrder ==
    << <<"CO_AH", "CO_AL", "CO2_AH", "CO2_AL">>, <<"CO_BH", "CO_BL", "CO2_BH", "CO2_BL">>,
       <<"CH4_A", "C2H6_A", "C3H8_A">>, <<"CH4_B", "C2H6_B", "C3H8_B">>,
       <<"H2_A", "D2_A">>, <<"H2_B", "D2_B">>,
       <<"He_A", "Ar_A", "N2_A">>, <<"He_B", "Ar_B", "N2_B">>,
       <<"O2_A">>, <<"O2_B">> >>

\* the node of each group, in the order the groups are applied
NodeOrder == <<6, 11, 7, 10, 4, 13, 8, 9, 5, 12>>

\* set_flowrate has been called for the group grp.step
GroupApplied ==
    op = "flowsms_setpoints" /\ grp.step \in 1..NumGroups /\ pc \in {"prompt", "done"}

\* the gas of a group that its arguments select
Preferred(order, args) ==
    LET q == {i \in 1..Len(order) : args[order[i]] # None /\ args[order[i]][1] > 0}
    IN  IF q = {} THEN order[Len(order)]
        ELSE order[CHOOSE i \in q : \A j \in q : i <= j]

\* every flowsms_setpoints call has run all its chains and returned
SetpointsCompleted ==
    op = "flowsms_setpoints" /\ pc = "done" /\ outcome = "returned" /\ grp.step > NumGroups

\* C11: in each node group flowsms_setpoints applies the first gas of the
\* priority order whose flow is given and positive, and the last alternative
\* with its supplied value when none is; the other gases of the group get no
\* call, no routing action and no write
C11_PrioritySelection ==
    GroupApplied =>
        LET g == Preferred(PriorityOrder[grp.step], grp.args)
        IN  /\ grp.applied = [gas |-> g, flow |-> grp.args[g]]
            /\ gas = g
            /\ Len(grp.called) = grp.step
            /\ \A i \in 1..Len(io) :
                  /\ io[i].kind = "call" => io[i].arg = feed_gas_functions[g]
                  /\ io[i].kind = "write_parameters" => io[i].arg = WriteParams(g, flow_conv)

\* CH4_A and C2H6_A both given and positive: only CH4_A is applied
C11_Witness ==
    /\ GroupApplied /\ pc = "done" /\ outcome = "returned"
    /\ grp.step = 3
    /\ grp.args["CH4_A"] = Some(500) /\ grp.args["C2H6_A"] = Some(500)
    /\ grp.applied.gas = "CH4_A"
    /\ Len(MfcWrites(io)) = 1

\* C12: flowsms_setpoints calls set_flowrate once per group in the order of
\* the nodes 6, 11, 7, 10, 4, 13, 8, 9, 5, 12, and a call that completes has
\* written each of the ten nodes exactly once, in that order
C12_OneWritePerNode ==
    op = "flowsms_setpoints" =>
        /\ Len(grp.called) <= Len(NodeOrder)
        /\ grp.called = SubSeq(NodeOrder, 1, Len(grp.called))
        /\ grp.written = SubSeq(NodeOrder, 1, Len(grp.written))
        /\ Len(grp.written) = grp.step - 1
        /\ SetpointsCompleted => grp.called = NodeOrder /\ grp.written = NodeOrder

C12_Witness ==
    /\ SetpointsCompleted
    /\ grp.written = NodeOrder
    /\ Cardinality(Range(grp.written)) = NumGroups


(***************************************************************************)
(* Properties of the pulse sequencers (SpecPulse).                         *)
(***************************************************************************)
\* how many entries of a log are e
Count(l, e) == Len(SelectSeq(l, LAMBDA x : x = e))

\* a whole number of pulses, zero or more, was asked for
WholePulses == seq.arg >= 0 /\ seq.arg % 10 = 0

\* C13: send_pulses_valve_A enters cont_mode_A first and then alternates
\* cont_mode_B and cont_mode_A; when it has returned from a call for a whole
\* number of pulses it has entered cont_mode_B exactly pulses times, and if
\* the valves obeyed the last entry they are in the cont_mode_A vector
C13_ValvePulseAlternation ==
    op = "send_pulses_valve_A" =>
        /\ Len(seq.log) >= 1
        /\ \A k \in 1..Len(seq.log) :
              seq.log[k] = IF k % 2 = 1 THEN "cont_mode_A" ELSE "cont_mode_B"
        /\ pc = "open" <=> seq.log[Len(seq.log)] = "cont_mode_B"
        /\ (pc = "done" /\ WholePulses) =>
              /\ 10 * Count(seq.log, "cont_mode_B") = seq.arg
              /\ 10 * (Count(seq.log, "cont_mode_A") - 1) = seq.arg
        /\ (pc = "done" /\ lost = {}) => ModeValvePositions(pos) = RoutingTable["cont_mode_A"]

C13_Witness ==
    /\ op = "send_pulses_valve_A" /\ pc = "done" /\ lost = {}
    /\ seq.arg = 20
    /\ seq.log = <<"cont_mode_A", "cont_mode_B", "cont_mode_A", "cont_mode_B", "cont_mode_A">>
    /\ ModeValvePositions(pos) = <<"OFF", "OFF", "OFF">>

\* C14: every completed iteration of send_pulses_valve_A has taken exactly
\* time_vo + 0.145 s + time_bp from its start to its end
C14_PulseDuration ==
    (op = "send_pulses_valve_A" /\ seq.i > 0) =>
        seq.period = seq.time_vo + valve_actuation_time + seq.time_bp

\* the mode a loop-based sequencer enters
LoopMode ==
    [send_pulses_loop_A |-> "pulses_loop_mode_A", send_pulses_loop_B |-> "pulses_loop_mode_B"]

\* C15: send_pulses_loop_A and send_pulses_loop_B first command the whole
\* vector of their mode, without any strobe; every later step is one strobe
\* /ATO to valve A followed by a sleep of time_bp, with no command to B or
\* C; a call that has returned has sent exactly int(pulses) strobes
C15_LoopStrobes ==
    op \in DOMAIN LoopMode =>
        /\ Len(seq.log) >= 1 /\ seq.log[1] = LoopMode[op]
        /\ \A k \in 2..Len(seq.log) : seq.log[k] = "strobe"
        /\ Len(seq.log) = 1 =>
              /\ \A v \in ModeValves :
                    \E k \in 1..Len(io) : io[k] = Cmd(v, ActuationOf(ModeVector(LoopMode[op])[v]))
              /\ \A k \in 1..Len(io) : io[k].arg # "TO"
        /\ Len(seq.log) > 1 =>
              io = << [kind |-> "valve_cmd", valve |-> "A", arg |-> "TO"],
                      [kind |-> "sleep", valve |-> "-", arg |-> seq.time_bp] >>
        /\ pc = "done" =>
              Count(seq.log, "strobe") = (IF seq.arg > 0 THEN seq.arg \div 10 ELSE 0)

C15_Witness ==
    /\ op = "send_pulses_loop_B" /\ pc = "done"
    /\ seq.arg = 27
    /\ seq.log = <<"pulses_loop_mode_B", "strobe", "strobe">>
    /\ pos["B"] = "ON" /\ pos["C"] = "ON" /\ pos["A"] = "ON"


(***************************************************************************)
(* Properties of the thermal events (SpecThermal, SpecThermalFair).        *)
(***************************************************************************)
\* this step is a poll of event e that read well and compared the measured
\* value with the setpoint the event holds
ComparingPoll(e) ==
    /\ pc = "polling" /\ th.event = e /\ th.sp # None
    /\ th'.polls = th.polls + 1

\* the step's output shows no status block and no MFC status read
NoStatusOutput(l) ==
    \A k \in 1..Len(l) :
       /\ l[k].kind # "call"
       /\ l[k].kind = "print" => l[k].arg # "status block"

\* C16: a poll of heating_event that reads well leaves the loop exactly when
\* the measured value is at or above the setpoint; when this is the first
\* such poll, the event has printed no status block and read no MFC status
C16_HeatingExit ==
    [][ComparingPoll("heating_event") =>
           /\ (pc' = "done") <=> (th'.pv[1] >= th.sp[1])
           /\ (pc' = "done" /\ th'.polls = 1) =>
                 th'.blocks = 0 /\ th'.status_reads = 0 /\ NoStatusOutput(io')]_vars

C16_Witness ==
    /\ op = "heating_event" /\ pc = "done" /\ outcome = "returned"
    /\ th.sp = Some(1000) /\ th.pv = Some(1000)
    /\ th.polls = 1 /\ th.blocks = 0

\* C17: a poll of cooling_event that reads well leaves the loop exactly when
\* the measured value is at or below the setpoint, and goes on while it is
\* above
C17_CoolingExit ==
    [][ComparingPoll("cooling_event") =>
           /\ (pc' = "done") <=> (th'.pv[1] <= th.sp[1])
           /\ (pc' = "polling") <=> (th'.pv[1] > th.sp[1])
           /\ (pc' = "done" /\ th'.polls = 1) =>
                 th'.blocks = 0 /\ th'.status_reads = 0 /\ NoStatusOutput(io')]_vars

C17_Witness ==
    /\ op = "cooling_event" /\ pc = "done" /\ outcome = "returned"
    /\ th.sp = Some(1000) /\ th.pv = Some(1000)
    /\ th.polls = 2 /\ th.blocks = 1

\* C18: every heating_event and cooling_event call, whatever its rate and
\* setpoint arguments, eventually returns
C18_EventsReturn ==
    (op \in {"heating_event", "cooling_event"} /\ pc = "polling") ~> (pc = "done")

\* the temperature the ramp of a heating_event is to reach: the setpoint
\* asked for, else the one the controller keeps
HeatingTarget ==
    IF th.sp_arg.kind = "number" THEN th.sp_arg.value ELSE th.regs[24]

\* C19: a heating_event whose ramp-rate or setpoint write failed raises
\* nothing, leaves the register at its previous value, is in its polling
\* loop or past it, and is out of the loop once a poll has read a value at
\* or above the target
C19_WriteFailureTolerated ==
    (th.event = "heating_event" /\ th.failed # {}) =>
        /\ outcome \in {"none", "returned"}
        /\ pc \in {"polling", "done"}
        /\ "rate_sp" \in th.failed => th.regs[35] = th.before[35]
        /\ "sp" \in th.failed => th.regs[24] = th.before[24]
        /\ (th.pv # None /\ th.pv[1] >= HeatingTarget) => pc = "done"

\* C20: temperature_ramping_event called with a numeric target calls no
\* event before a read has succeeded, then calls one event once, with its own
\* rate and target: cooling_event when the value read is above the target,
\* heating_event otherwise; it returns when that event has returned
C20_RampDispatchesOnce ==
    op = "temperature_ramping_event" =>
        /\ Len(th.dispatched) <= 1
        /\ pc = "ramp" => th.dispatched = <<>>
        /\ pc = "polling" => Len(th.dispatched) = 1
        /\ th.dispatched # <<>> =>
              /\ th.ramp_pv # None
              /\ th.dispatched[1] = (IF th.ramp_pv[1] > th.ramp_sp.value
                                     THEN "cooling_event" ELSE "heating_event")
              /\ th.event = th.dispatched[1]
              /\ th.rate_arg = th.ramp_rate /\ th.sp_arg = th.ramp_sp
        /\ (pc = "done" /\ outcome = "returned") =>
              Len(th.dispatched) = 1 /\ th.last = "reached"

C20_Witness ==
    /\ op = "temperature_ramping_event" /\ pc = "done" /\ outcome = "returned"
    /\ th.ramp_pv = Some(1000) /\ th.ramp_sp = NumArg(1000)
    /\ th.dispatched = <<"heating_event">>
    /\ th.last = "reached"


(***************************************************************************)
(* Properties of time_event, flowsms_status and IR_STATUS (SpecThermal).   *)
(***************************************************************************)
\* this step is a pass of the loop of time_event
TimePass == pc = "waiting" /\ th'.polls = th.polls + 1

\* C21: a pass of time_event leaves the loop exactly when the elapsed time
\* has reached time_in_seconds, whatever the status calls have read, and a
\* call with time_in_seconds <= 0 is over after its first pass without a
\* single flowsms_status call
C21_TimeAloneEndsWait ==
    [][TimePass =>
          /\ (pc' = "done") <=> (th.elapsed >= th.wait)
          /\ (pc' = "done") => outcome' = "returned"
          /\ th.wait <= 0 =>
                /\ pc' = "done" /\ th'.polls = 1
                /\ th'.status_reads = 0 /\ NoStatusOutput(io')]_vars

C21_Witness ==
    /\ op = "time_event" /\ pc = "done" /\ outcome = "returned"
    /\ th.wait = 2500 /\ th.elapsed = 2500
    /\ th.blocks = 2 /\ th.status_reads = 4
    /\ th.block.pressure_a # th.block.pressure_b


(***************************************************************************)
(* Properties of the gas-source selection (SpecFlow).                      *)
(***************************************************************************)
\* C22: no step of a flow-setting call moves valve A, B or C or changes the
\* routing mode, and every valve command and query it sends is addressed to
\* one of the source valves D..I
C22_ModeValvesUntouched ==
    [][/\ ModeValvePositions(pos') = ModeValvePositions(pos)
       /\ mode' = mode
       /\ \A k \in 1..Len(io') :
             io'[k].kind \in {"valve_cmd", "valve_query"} => io'[k].valve \in SourceValves]_vars

\* argon routed to line A with the mode valves ON and the source valves
\* having started OFF
C22_Witness ==
    /\ op = "set_flowrate" /\ pc = "done" /\ outcome = "returned"
    /\ gas = "Ar_A" /\ Len(ValveCommands(io)) >= 1
    /\ pos["G"] = "ON" /\ pos["D"] = "OFF"
    /\ ModeValvePositions(pos) = <<"ON", "ON", "ON">>


\* the gas and the line a registered name stands for
GasOf ==
    [H2_A |-> "H2", H2_B |-> "H2", D2_A |-> "D2", D2_B |-> "D2", O2_A |-> "O2", O2_B |-> "O2",
     CO_AH |-> "CO", CO_AL |-> "CO", CO_BH |-> "CO", CO_BL |-> "CO",
     CO2_AH |-> "CO2", CO2_AL |-> "CO2", CO2_BH |-> "CO2", CO2_BL |-> "CO2",
     CH4_A |-> "CH4", CH4_B |-> "CH4", C2H6_A |-> "C2H6", C2H6_B |-> "C2H6",
     C3H8_A |-> "C3H8", C3H8_B |-> "C3H8",
     He_A |-> "He", He_B |-> "He", Ar_A |-> "Ar", Ar_B |-> "Ar", N2_A |-> "N2", N2_B |-> "N2"]

LineOf ==
    [H2_A |-> "A", H2_B |-> "B", D2_A |-> "A", D2_B |-> "B", O2_A |-> "A", O2_B |-> "B",
     CO_AH |-> "A", CO_AL |-> "A", CO_BH |-> "B", CO_BL |-> "B",
     CO2_AH |-> "A", CO2_AL |-> "A", CO2_BH |-> "B", CO2_BL |-> "B",
     CH4_A |-> "A", CH4_B |-> "B", C2H6_A |-> "A", C2H6_B |-> "B",
     C3H8_A |-> "A", C3H8_B |-> "B",
     He_A |-> "A", He_B |-> "B", Ar_A |-> "A", Ar_B |-> "B", N2_A |-> "A", N2_B |-> "B"]

\* the valve assigned to the family and the line of a gas
FamilyValve(g) ==
    CASE GasOf[g] \in {"He", "Ar", "N2"}        -> (IF LineOf[g] = "A" THEN "G" ELSE "F")
      [] GasOf[g] \in {"CO", "CO2"}             -> "D"
      [] GasOf[g] \in {"CH4", "C2H6", "C3H8"}   -> "E"
      [] GasOf[g] \in {"H2", "D2"}              -> (IF LineOf[g] = "A" THEN "I" ELSE "H")
      [] OTHER                                  -> "none"

\* the call has run the routing action bound to a gas of the four families
Routed ==
    /\ op = "set_flowrate" /\ pc = "done" /\ outcome = "returned"
    /\ flow_conv > 0 /\ gas \in gas_list /\ FamilyValve(gas) # "none"

\* the names bound to an action on the valve of g that stand for another gas
OthersOnValve(g) ==
    {h \in DOMAIN feed_gas_functions :
        /\ GasOf[h] # GasOf[g]
        /\ FeedCommand(feed_gas_functions[h]) # <<>>
        /\ FeedCommand(feed_gas_functions[h])[1] = FamilyValve(g)}

\* every valve command of the log goes to valve v
OnlyValve(l, v) ==
    /\ ValveCommands(l) # <<>>
    /\ \A k \in 1..Len(l) : l[k].kind \in {"valve_cmd", "valve_query"} => l[k].valve = v

\* the actuation command that selects h
SelectionOf(h) == ActuationOf(FeedCommand(feed_gas_functions[h])[2])

\* gases that share a port of their valve
SharedPort == {{"Ar", "N2"}, {"C2H6", "C3H8"}}

ChannelRead(l, c) ==
    \E k \in 1..Len(l) : l[k].kind = "read_parameters" /\ l[k].arg.channel = c

\* the setpoint the log shows read back for channel c is other than zero
SetpointReadBack(l, c) ==
    \E k \in 1..Len(l) :
        /\ l[k].kind = "read_parameters"
        /\ l[k].arg.channel = c
        /\ l[k].arg.values[2] # 0

\* the log holds the report line named a
Reported(l, a) == \E k \in 1..Len(l) : l[k].kind = "report" /\ l[k].arg = a

\* C24: a flowsms_status call that completes has read the pressures of
\* line A and line B and has emitted the flow report, in which a gas
\* channel appears exactly when its setpoint read-back is other than zero
C24_StatusReport ==
    (op = "flowsms_status" /\ pc = "done") =>
        /\ ChannelRead(io, "p_a") /\ ChannelRead(io, "p_b")
        /\ Reported(io, "totals")
        /\ \A k \in 1..Len(ReportOrder) :
              Reported(io, ReportOrder[k]) <=> SetpointReadBack(io, ReportOrder[k])


\* C25: the status block of heating_event, cooling_event and time_event
\* shows the pressure read at the node of line A as that of line A, and the
\* pressure read at the node of line B as that of line B
C25_BlockShowsBothLines ==
    (op \in {"heating_event", "cooling_event", "time_event"} /\ th.blocks > 0) =>
        /\ th.block.pressure_a # None /\ th.block.pressure_b # None
        /\ th.block.pressure_a[1] \in th.block.read_a
        /\ th.block.pressure_b[1] \in th.block.read_b


\* what the link carries for valve v, in order
ValveLog(l, v) == SelectSeq(l, LAMBDA e : e.valve = v)

\* the character a valve in the wanted position answers
ExpectedReadback(position) == IF position = "ON" THEN "B" ELSE "A"

\* C26: move_valve_to_position sends the mapped actuation command, waits
\* the settle delay, queries the position once, and sends the actuation
\* command a second time exactly when the character read back is not the
\* expected one; nothing else is sent, and the call returns
C26_OneQueryOneResend ==
    (op \in ModeNames /\ pc = "done") =>
        /\ outcome = "returned"
        /\ \A v \in ModeValves :
              LET lv == ValveLog(io, v)
                  target == ModeVector(op)[v]
              IN  /\ Len(lv) \in {4, 5}
                  /\ lv[1] = Cmd(v, ActuationOf(target))
                  /\ lv[2].kind = "sleep" /\ lv[2].arg = "300ms"
                  /\ lv[3].kind = "valve_query"
                  /\ lv[4].kind = "valve_readback"
                  /\ (Len(lv) = 5) <=> (lv[4].arg # ExpectedReadback(target))
                  /\ Len(lv) = 5 => lv[5] = lv[1]

\* a valve that missed both commands: two actuation commands, one query,
\* the call has returned and the valve is not where the mode wants it
C26_Witness ==
    /\ op \in ModeNames /\ pc = "done" /\ outcome = "returned"
    /\ \E v \in ModeValves :
          /\ Len(ValveLog(io, v)) = 5
          /\ pos[v] # ModeVector(op)[v]


\* the place of an event in a mode entry: valve A, valve B, valve C, then
\* the announcement
EntryRank(e) ==
    CASE e.valve = "A" -> 1
      [] e.valve = "B" -> 2
      [] e.valve = "C" -> 3
      [] OTHER         -> 4

\* C27: a mode entry commands valve A, then valve B, then valve C, each
\* with its query and read-back done before the next valve is commanded,
\* and announces the mode only after everything sent to valve C
C27_AnnouncedAfterThree ==
    (op \in ModeNames /\ pc = "done") =>
        /\ \A v \in ModeValves : \E k \in 1..Len(io) : io[k].kind = "valve_cmd" /\ io[k].valve = v
        /\ \A i \in 1..Len(io) : \A j \in i..Len(io) : EntryRank(io[i]) <= EntryRank(io[j])
        /\ \A k \in 1..Len(io) : io[k].kind = "print" => k = Len(io) /\ io[k].arg = op
        /\ \A k \in 1..Len(io) : io[k].valve = "-" => io[k].kind = "print"
        /\ mode = op

\* an announced entry in which valves A and C each needed a second command
C27_Witness ==
    /\ op = "pulses_loop_mode_B" /\ pc = "done"
    /\ io[Len(io)].kind = "print"
    /\ Len(ValveLog(io, "A")) = 5 /\ Len(ValveLog(io, "B")) = 4 /\ Len(ValveLog(io, "C")) = 5


\* this step is a poll of heating_event or cooling_event in which a read of
\* one of the three registers failed
FailedPoll ==
    /\ pc = "polling" /\ th.event \in {"heating_event", "cooling_event"}
    /\ Len(io') > 0 /\ io'[Len(io')].kind = "raise"

\* C28: a poll of heating_event or cooling_event in which a register read
\* fails with an I/O error or a malformed response leaves the loop polling:
\* the loop is not left, nothing is reported reached, no value is compared
\* with the setpoint and no status block is printed, and the poll is not
\* counted, so that any number of failed polls may follow one another
C28_FailedPollRestarts ==
    [][FailedPoll =>
           /\ io'[Len(io')].arg \in ReadErrors
           /\ pc' = "polling" /\ outcome' = outcome
           /\ th'.pv = th.pv /\ th'.polls = th.polls
           /\ th'.blocks = th.blocks /\ th'.status_reads = th.status_reads
           /\ \A k \in 1..Len(io') : io'[k].kind \notin {"print", "call", "sleep"}]_vars

\* the poll after a status block failed at the second register: the reactor
\* temperature just read differs from the one last compared
C28_Witness ==
    /\ op = "heating_event" /\ pc = "polling"
    /\ Len(io) = 3 /\ io[3].kind = "raise" /\ io[2].arg = 5
    /\ th.polls = 1 /\ th.blocks = 1
    /\ th.temp_tc # None /\ th.pv # None /\ th.temp_tc # th.pv


\* C29: a set_flowrate call never issues more than one MFC write
\* transaction and never reads a parameter back; a call that returns has
\* issued exactly one, and for a gas with a calibration curve it holds the
\* curve selection (parameter 16) first and the setpoint (parameter 1)
\* second, both addressed to the node of the gas
C29_OneWriteCurveFirst ==
    op = "set_flowrate" =>
        /\ Len(MfcWrites(io)) <= 1
        /\ \A k \in 1..Len(io) : io[k].kind \notin {"read_parameters", "read_register"}
        /\ (pc = "done" /\ outcome = "returned") =>
              /\ Len(MfcWrites(io)) = 1
              /\ gas_cal[gas] \in Nat =>
                    LET w == MfcWrites(io)[1].arg
                    IN  /\ Len(w) = 2
                        /\ w[1].proc_nr = 1 /\ w[1].parm_nr = 16 /\ w[1].data = gas_cal[gas]
                        /\ w[2].proc_nr = 1 /\ w[2].parm_nr = 1
                        /\ w[1].node = gas_ID[gas] /\ w[2].node = gas_ID[gas]

\* CO on the low range of line A at 5 sccm: curve selection, then setpoint
C29_Witness ==
    /\ op = "set_flowrate" /\ pc = "done" /\ outcome = "returned"
    /\ gas = "CO_AL" /\ flow_conv = 500
    /\ Len(MfcWrites(io)) = 1
    /\ MfcWrites(io)[1].arg[1].parm_nr = 16
    /\ MfcWrites(io)[1].arg[2].data = 8888


\* C30: an IR_STATUS call ends only by returning, and only on a read of
\* register 361 that gave 1; a read that gives 0 pauses and leaves the call
\* polling
C30_ReturnsWhenReady ==
    (op = "IR_STATUS" /\ pc = "done") =>
        /\ outcome = "returned"
        /\ th.last = "read" /\ th.pv = Some(1)


\* C31: in a flowsms_status call each of the ten flow nodes has its own
\* read transaction, and every parameter of a transaction (measured flow,
\* setpoint, fluid number) is read from one and the same node
C31_GroupReadFromOneNode ==
    (op = "flowsms_status" /\ pc = "done") =>
        /\ \A n \in FlowNodes :
              \E k \in 1..Len(io) :
                 /\ io[k].kind = "read_parameters"
                 /\ io[k].arg.params[1].node = n
        /\ \A k \in 1..Len(io) :
              io[k].kind = "read_parameters" =>
                 \A i \in 1..Len(io[k].arg.params) :
                    io[k].arg.params[i].node = io[k].arg.params[1].node


\* C32: every setpoint code a set_flowrate call writes lies in 0..32000
C32_SetpointCodeInScale ==
    op = "set_flowrate" =>
        \A k \in 1..Len(MfcWrites(io)) :
           /\ Setpoint(MfcWrites(io)[k]).data >= 0
           /\ Setpoint(MfcWrites(io)[k]).data <= 32000


\* the call has left the node of g with a setpoint above zero
LeftPositive(g) ==
    /\ Qualifies(grp.args[g])
    /\ \E k \in 1..Len(io) :
          /\ io[k].kind = "write_parameters"
          /\ Setpoint(io[k]).node = gas_ID[g]
          /\ Setpoint(io[k]).data > 0

\* g has a routing action that commands a valve
HasSelection(g) ==
    g \in DOMAIN feed_gas_functions /\ FeedCommand(feed_gas_functions[g]) # <<>>

\* the flowsms_setpoints call has run all its chains and returns
SetpointsCallReturned ==
    /\ op = "flowsms_setpoints" /\ pc = "done" /\ outcome = "returned"
    /\ grp.step > NumGroups

\* C33: when a flowsms_setpoints call returns, for every gas whose node it
\* left with a setpoint above zero the source-selection valve of that gas
\* is in the position its routing action commands
C33_PositiveNodesRouted ==
    SetpointsCallReturned =>
        \A g \in gas_list :
           (LeftPositive(g) /\ HasSelection(g)) =>
               pos[FeedCommand(feed_gas_functions[g])[1]] = FeedCommand(feed_gas_functions[g])[2]


\* C34: a flowsms_setpoints call with every flow left out or zero returns
\* after writing setpoint code 0 to each of the nodes 4..13 once; it sends
\* nothing to a valve, prompts for nothing and leaves every valve where it
\* was
C34_StopAllFlows ==
    [][(pc = "idle" /\ op' = "flowsms_setpoints" /\ pc' = "done"
        /\ \A g \in gas_list : grp'.args[g] = None \/ grp'.args[g] = Some(0))
       => /\ outcome' = "returned"
          /\ pos' = pos
          /\ Len(MfcWrites(io')) = 10
          /\ \A n \in 4..13 :
                \E k \in 1..Len(io') :
                   /\ io'[k].kind = "write_parameters"
                   /\ Setpoint(io'[k]).node = n
                   /\ Setpoint(io'[k]).data = 0
          /\ \A k \in 1..Len(io') : io'[k].kind = "write_parameters"]_vars

\* the call of the main program: no argument at all, ten zeros written
C34_Witness ==
    /\ SetpointsCallReturned
    /\ \A g \in gas_list : grp.args[g] = None
    /\ Len(MfcWrites(io)) = 10
    /\ pos["D"] = "ON" /\ pos["G"] = "OFF"


Sequencers == {"send_pulses_loop_A", "send_pulses_loop_B", "send_pulses_valve_A"}

\* C35: no step of a mode entry or of a pulse sequencer moves one of the
\* valves D..I, sends anything to one of them, or writes to an MFC
C35_SourceSideUntouched ==
    [][op' \in ModeNames \cup Sequencers =>
          /\ \A v \in SourceValves : pos'[v] = pos[v]
          /\ \A k \in 1..Len(io') :
                /\ io'[k].kind # "write_parameters"
                /\ io'[k].valve # "-" => io'[k].valve \in ModeValves]_vars

\* a loop sequencer that has strobed once, the source valves where they were
C35_Witness ==
    /\ op = "send_pulses_loop_B" /\ pc = "done" /\ seq.i = 1
    /\ pos["A"] = "OFF" /\ pos["B"] = "ON" /\ pos["C"] = "ON"
    /\ \A v \in SourceValves : pos[v] = "OFF"


\* the positions of valves A, B, C
ModeVectorNow(p) == [A |-> p["A"], B |-> p["B"], C |-> p["C"]]

ContinuousA == [A |-> "OFF", B |-> "OFF", C |-> "OFF"]

ContinuousB == [A |-> "OFF", B |-> "ON", C |-> "OFF"]

\* C36: every actuation command send_pulses_valve_A sends to valve A or to
\* valve C is the command for OFF; when no command of a step is lost the
\* step ends with A, B, C in the vector of cont_mode_A or of cont_mode_B,
\* and from the baseline entry on such steps change the position of valve
\* B alone
C36_OnlyValveBPulses ==
    [][op' = "send_pulses_valve_A" =>
          /\ \A k \in 1..Len(io') :
                (io'[k].kind = "valve_cmd" /\ io'[k].valve \in {"A", "C"}) => io'[k].arg = "CW"
          /\ lost' = {} => ModeVectorNow(pos') \in {ContinuousA, ContinuousB}
          /\ (op = "send_pulses_valve_A" /\ lost = {} /\ lost' = {}) =>
                \A v \in Valves \ {"B"} : pos'[v] = pos[v]]_vars

\* the valve open for the second pulse
C36_Witness ==
    /\ op = "send_pulses_valve_A" /\ pc = "open" /\ seq.i = 1 /\ lost = {}
    /\ ModeVectorNow(pos) = ContinuousB


\* the commands the link lost are first commands, one per valve at most
FirstCommandsLost == lost # {} /\ \A l \in lost : l[2] = 1

\* C37: a mode entry in which valves ignored the first command of their
\* call and obeyed the resent one ends with A, B, C in the vector of the
\* mode; a valve that was not in its place after the ignored command was
\* sent the command again
C37_LostCommandRecovered ==
    (op \in ModeNames /\ pc = "done" /\ FirstCommandsLost) =>
        /\ outcome = "returned"
        /\ ModeValvePositions(pos) = RoutingTable[op]
        /\ \A v \in ModeValves :
              (<<v, 1>> \in lost /\ ValveLog(io, v)[4].arg # ExpectedReadback(ModeVector(op)[v]))
                 => Len(ValveLog(io, v)) = 5

\* valves A and B both ignored their first command and were resent to
C37_Witness ==
    /\ op = "pulses_loop_mode_B" /\ pc = "done"
    /\ lost = {<<"A", 1>>, <<"B", 1>>}
    /\ Len(ValveLog(io, "A")) = 5 /\ Len(ValveLog(io, "B")) = 5
    /\ ModeValvePositions(pos) = RoutingTable[op]


\* C38: a move_valve_to_position call for a position other than 'ON' and
\* 'OFF' prints that the position is invalid and returns; it sends no
\* command and no query and leaves every valve where it was
C38_InvalidPositionIgnored ==
    [][(pc = "idle" /\ op' = "move_valve_to_position" /\ io'[1].arg[2] \notin {"ON", "OFF"}) =>
          /\ pc' = "done" /\ outcome' = "returned"
          /\ pos' = pos
          /\ Len(io') = 2
          /\ io'[2].kind = "print" /\ io'[2].arg = "Invalid position specified."]_vars

\* 'on' in lower case asked of valve B while it is OFF and valve D is ON
C38_Witness ==
    /\ op = "move_valve_to_position" /\ pc = "done" /\ outcome = "returned"
    /\ io[1].arg = <<"B", "on">>
    /\ Len(io) = 2 /\ io[2].kind = "print"
    /\ pos["B"] = "OFF" /\ pos["D"] = "ON" /\ pos["E"] = "OFF"

====
